---- MODULE Spec2Model ----
(***************************************************************************)
(* A model of greentic-provision: the plan model (types.rs), the pipeline  *)
(* engine (engine.rs), the wasmtime executor (executor.rs) and the applier *)
(* with its stores (apply.rs).                                             *)
(***************************************************************************)
EXTENDS Integers, Sequences, FiniteSets, TLC

VARIABLES
    e_pc,            \* position of ProvisionEngine::run
    executor,        \* which ProvisionExecutor the engine owns
    mode,            \* run's mode argument
    inputs,          \* run's inputs argument
    idx,             \* number of completed iterations of the step loop
    step_results,    \* run's local step_results
    plan,            \* run's local plan accumulator
    diagnostics,     \* run's local diagnostics
    ctx,             \* the ProvisionContext handed to the executor
    output,          \* the StepOutput the executor returned
    calls,           \* history: the steps run_step was invoked with
    ctxs,            \* history: the contexts run_step was invoked with
    returned,        \* history: the outputs run_step returned
    plans,           \* history: the plan accumulator after each step
    result,          \* the ProvisionResult returned by run
    pack,            \* WasmtimeExecutor: the files under pack_root
    x_pc,            \* position of the current run_named_step
    component,       \* the module loaded for the current step
    guest,           \* what the guest's run does in the current call
    output_json,     \* the parsed output of the current call
    epoch,           \* per step invocation: the epoch of its engine
    deadline,        \* per step invocation: the epoch deadline of its store
    watchdog,        \* per step invocation: the state of its watchdog thread
    joined,          \* per step invocation: whether its watchdog was joined
    trapped,         \* per step invocation: whether the guest call trapped
    mem_reads,       \* per step invocation: calls of memory.read
    named_results,   \* history: what run_named_step returned
    m_pc,            \* merge_patch driver: which merges have been done
    m_P,             \* merge_patch driver: the plan merged into
    m_A,             \* merge_patch driver: the first patch
    m_B,             \* merge_patch driver: the second patch
    m_acc,           \* merge_patch driver: the plan being merged into
    a_inputs,        \* ProvisionApplier.inputs
    config_store,    \* InMemoryConfigStore.namespaces
    secrets_store,   \* InMemorySecretsStore.namespaces
    install_store,   \* InMemoryInstallStore.records
    applies,         \* number of apply calls made
    a_result,        \* the result argument of the last apply
    a_mode,          \* the mode argument of the last apply
    effects,         \* the store and handler calls of the last apply, in order
    report,          \* the ApplyReport the last apply returned
    i_kind,          \* install store driver: InMemoryInstallStore or FileInstallStore
    i_records,       \* the store's records
    i_file,          \* FileInstallStore: the content of the file at path
    i_ops,           \* number of operations made on the store
    i_last,          \* the last operation, its result and the records before it
    i_latest,        \* history: per install, the record last put and not deleted
    r_files,         \* resolve_component driver: the files that exist
    r_step,          \* resolve_component driver: the step name
    r_path,          \* resolve_component driver: what resolve_component returned
    d_value,         \* step_output_from_json driver: the output JSON
    d_output,        \* step_output_from_json driver: what it returned
    p_manifest,      \* discover driver: the PackManifest
    p_descriptor,    \* discover driver: what discover returned
    l_value,         \* load_manifest driver: the value the manifest file decodes to
    l_normalized,    \* history: what normalize_manifest_value returned
    l_manifest,      \* per encoding of the file: what load_manifest returned
    c_dir,           \* run_conformance: the packs in packs_dir, in read_dir order
    c_provider,      \* run_conformance: the provider argument
    c_pc,            \* position of run_conformance
    c_entries,       \* run_conformance's local entries
    c_next,          \* the index in entries of the next pack of the loop
    c_reports,       \* run_conformance's local reports
    c_exit,          \* what run_conformance returned
    s_ops,           \* serialization driver: per plan, the insertions to make
    s_done,          \* per plan, how many of them were made
    s_plans,         \* per plan, the ProvisionPlan built so far
    s_texts,         \* per plan, the strings serde_json::to_string returned
    f_fixtures,      \* plan_from_fixtures driver: per step, the fixture file
    f_result         \* what plan_from_fixtures returned

engineVars == <<e_pc, executor, mode, inputs, idx, step_results, plan,
                diagnostics, ctx, output, calls, ctxs, returned, plans, result>>

execVars == <<pack, x_pc, component, guest, output_json, epoch, deadline,
              watchdog, joined, trapped, mem_reads, named_results>>

mergeVars == <<m_pc, m_P, m_A, m_B, m_acc>>

applyVars == <<a_inputs, config_store, secrets_store, install_store, applies,
               a_result, a_mode, effects, report>>

installVars == <<i_kind, i_records, i_file, i_ops, i_last, i_latest>>

resolveVars == <<r_files, r_step, r_path>>

decodeVars == <<d_value, d_output>>

discoverVars == <<p_manifest, p_descriptor>>

loadVars == <<l_value, l_normalized, l_manifest>>

conformanceVars == <<c_dir, c_provider, c_pc, c_entries, c_next, c_reports, c_exit>>

serializeVars == <<s_ops, s_done, s_plans, s_texts>>

fixtureVars == <<f_fixtures, f_result>>

libVars == <<serializeVars, fixtureVars>>

cliVars == <<discoverVars, loadVars, conformanceVars, libVars>>

driverVars == <<installVars, resolveVars, decodeVars, cliVars>>

vars == <<engineVars, execVars, mergeVars, applyVars, driverVars>>

\* What an action of the engine alone leaves unchanged.
engineFrame == <<execVars, mergeVars, applyVars, driverVars>>

\* What an action of the executor leaves unchanged besides the engine's and
\* its own variables.
execFrame == <<mergeVars, applyVars, driverVars>>

\* What an action of the merge driver leaves unchanged.
mergeFrame == <<engineVars, execVars, applyVars, driverVars>>

\* What an action of the applier leaves unchanged.
applyFrame == <<engineVars, execVars, mergeVars, driverVars>>

\* What an action of a driver leaves unchanged besides the drivers' variables.
driverFrame == <<engineVars, execVars, mergeVars, applyVars, cliVars>>

\* What an action of a driver of the discovery or of the command line leaves
\* unchanged besides the variables of these drivers.
cliFrame == <<engineVars, execVars, mergeVars, applyVars,
              installVars, resolveVars, decodeVars, libVars>>

\* What an action of the serialization or of the fixture driver leaves
\* unchanged besides the variables of these two drivers.
libFrame == <<engineVars, execVars, mergeVars, applyVars, installVars,
              resolveVars, decodeVars, discoverVars, loadVars, conformanceVars>>

----------------------------------------------------------------------------
(* Option<T>: None is the empty sequence, Some(x) the one-element sequence. *)

None == <<>>

Some(x) == <<x>>

IsSome(o) == Len(o) = 1

Unwrap(o) == o[1]

(* BTreeMap<String, V>: a function whose domain is the key set. *)
EmptyMap == [k \in {} |-> None]

\* BTreeMap::extend: every (k, v) of q is inserted, overwriting.
MapExtend(m, q) ==
    [k \in (DOMAIN m) \cup (DOMAIN q) |-> IF k \in DOMAIN q THEN q[k] ELSE m[k]]

----------------------------------------------------------------------------
(* types.rs *)

ProvisionMode == {"Install", "Update", "Delete", "DryRun"}

ProvisionStep == {"Collect", "Validate", "Apply", "Summary"}

\* The array the step loop of run iterates over.
StepOrder == <<"Collect", "Validate", "Apply", "Summary">>

\* RedactedValue::redacted()
Redacted == [redacted |-> TRUE, value |-> None]

\* RedactedValue::plaintext(value)
Plaintext(v) == [redacted |-> FALSE, value |-> Some(v)]

\* SecretsPatch::default()
DefaultSecretsPatch == [set |-> EmptyMap, delete |-> <<>>]

\* ProvisionPlan::default()
DefaultPlan ==
    [config_patch     |-> EmptyMap,
     secrets_patch    |-> DefaultSecretsPatch,
     webhook_ops      |-> <<>>,
     subscription_ops |-> <<>>,
     oauth_ops        |-> <<>>,
     notes            |-> <<>>]

\* A ProvisionPlanPatch with every field None.
EmptyPatch ==
    [config_patch     |-> None,
     secrets_patch    |-> None,
     webhook_ops      |-> None,
     subscription_ops |-> None,
     oauth_ops        |-> None,
     notes            |-> None]

\* A mutant of merge_patch: the incoming list replaces the accumulated one
\* and existing map keys are kept (first writer wins).
merge_patch_replacing(self, patch) ==
    [config_patch |->
        IF IsSome(patch.config_patch)
        THEN MapExtend(Unwrap(patch.config_patch), self.config_patch)
        ELSE self.config_patch,
     secrets_patch |->
        IF IsSome(patch.secrets_patch)
        THEN [set    |-> MapExtend(Unwrap(patch.secrets_patch).set,
                                   self.secrets_patch.set),
              delete |-> Unwrap(patch.secrets_patch).delete]
        ELSE self.secrets_patch,
     webhook_ops |->
        IF IsSome(patch.webhook_ops)
        THEN Unwrap(patch.webhook_ops) ELSE self.webhook_ops,
     subscription_ops |->
        IF IsSome(patch.subscription_ops)
        THEN Unwrap(patch.subscription_ops) ELSE self.subscription_ops,
     oauth_ops |->
        IF IsSome(patch.oauth_ops)
        THEN Unwrap(patch.oauth_ops) ELSE self.oauth_ops,
     notes |->
        IF IsSome(patch.notes)
        THEN Unwrap(patch.notes) ELSE self.notes]

\* ProvisionPlan::merge_patch: the plan self after merging patch into it.
merge_patch(self, patch) ==
    [config_patch |->
        IF IsSome(patch.config_patch)
        THEN MapExtend(self.config_patch, Unwrap(patch.config_patch))
        ELSE self.config_patch,
     secrets_patch |->
        IF IsSome(patch.secrets_patch)
        THEN [set    |-> MapExtend(self.secrets_patch.set,
                                   Unwrap(patch.secrets_patch).set),
              delete |-> self.secrets_patch.delete
                            \o Unwrap(patch.secrets_patch).delete]
        ELSE self.secrets_patch,
     webhook_ops |->
        IF IsSome(patch.webhook_ops)
        THEN self.webhook_ops \o Unwrap(patch.webhook_ops)
        ELSE self.webhook_ops,
     subscription_ops |->
        IF IsSome(patch.subscription_ops)
        THEN self.subscription_ops \o Unwrap(patch.subscription_ops)
        ELSE self.subscription_ops,
     oauth_ops |->
        IF IsSome(patch.oauth_ops)
        THEN self.oauth_ops \o Unwrap(patch.oauth_ops)
        ELSE self.oauth_ops,
     notes |->
        IF IsSome(patch.notes)
        THEN self.notes \o Unwrap(patch.notes)
        ELSE self.notes]

\* StepOutput::default()
DefaultStepOutput ==
    [diagnostics |-> <<>>, data |-> [t |-> "null"],
     plan_patch |-> None, questions |-> None]

----------------------------------------------------------------------------
(* serde_json::Value, tagged by its variant. *)

JNull == [t |-> "null"]

JBool(b) == [v |-> b, t |-> "bool"]

JNum(n) == [v |-> n, t |-> "num"]

JStr(s) == [v |-> s, t |-> "str"]

JArr(seq) == [v |-> seq, t |-> "arr"]

JObj(map) == [v |-> map, t |-> "obj"]

----------------------------------------------------------------------------
(* The values the model draws arguments and executor behaviours from. *)

TenantDefault ==
    [environment |-> None, tenant |-> None, team |-> None, user |-> None]

TenantProd ==
    [environment |-> Some(<<"prod">>), tenant |-> Some(<<"tenant-a">>),
     team |-> Some(<<"team-a">>), user |-> None]

MkInputs(tenant, provider_id, install_id, answers) ==
    [tenant |-> tenant, provider_id |-> provider_id, install_id |-> install_id,
     answers |-> answers, public_base_url |-> None, existing_state |-> None]

\* Strings that are formatted into namespaces are sequences of pieces.
InputsSet ==
    {MkInputs(TenantDefault, <<"p">>, <<"i">>, JObj(EmptyMap)),
     MkInputs(TenantProd, <<"p">>, <<"i">>, JObj([field |-> JStr("value")]))}

WebhookA == [op |-> "register", id |-> Some("w1"), url |-> None, metadata |-> EmptyMap]

SubRegister ==
    [op |-> "register", id |-> Some("s1"),
     metadata |-> [resource |-> JStr("inbox"), expiry |-> JStr("2030")]]

SubRemove == [op |-> "remove", id |-> Some("s2"), metadata |-> EmptyMap]

OAuthA == [op |-> "start", provider |-> "google", scopes |-> <<"mail">>, redirect_url |-> None]

OAuthB == [op |-> "start", provider |-> "github", scopes |-> <<>>, redirect_url |-> Some("u")]

PatchFooBar ==
    [EmptyPatch EXCEPT !.config_patch = Some([foo |-> JStr("bar")]),
                       !.notes = Some(<<"n1">>)]

PatchFooBazToken ==
    [EmptyPatch EXCEPT !.config_patch = Some([foo |-> JStr("baz"), zeta |-> JNull]),
                       !.secrets_patch = Some([set |-> [token |-> Redacted],
                                               delete |-> <<"old">>])]

PatchOps ==
    [EmptyPatch EXCEPT !.webhook_ops = Some(<<WebhookA>>),
                       !.subscription_ops = Some(<<SubRegister>>),
                       !.oauth_ops = Some(<<OAuthA>>),
                       !.notes = Some(<<"n2">>)]

\* What an arbitrary ProvisionExecutor may return from run_step.
StubOutputs ==
    {DefaultStepOutput,
     [diagnostics |-> <<"d1">>, data |-> JObj([error |-> JStr("boom")]),
      plan_patch |-> None, questions |-> None],
     [diagnostics |-> <<>>, data |-> JNull,
      plan_patch |-> Some(PatchFooBar), questions |-> None],
     [diagnostics |-> <<"d2", "d3">>, data |-> JNull,
      plan_patch |-> Some(PatchFooBazToken), questions |-> Some(JStr("q"))],
     [diagnostics |-> <<"d1">>, data |-> JObj([error |-> JStr("late")]),
      plan_patch |-> Some(PatchOps), questions |-> None]}

----------------------------------------------------------------------------
(* engine.rs: ProvisionEngine::run *)

NoCtx == [mode |-> None, inputs |-> None, step |-> None, prior_results |-> <<>>]

\* run, lines 41-45: the locals before the step loop.
Run(m, i) ==
    /\ e_pc = "idle"
    /\ mode' = m
    /\ inputs' = i
    /\ step_results' = <<>>
    /\ plan' = DefaultPlan
    /\ diagnostics' = <<>>
    /\ idx' = 0
    /\ e_pc' = "loop"
    /\ UNCHANGED <<executor, ctx, output, calls, ctxs, returned, plans, result>>
    /\ UNCHANGED engineFrame

\* A mutant of CallExecutor: the context carries only the latest result.
CallExecutorLatestOnly ==
    /\ e_pc = "loop"
    /\ idx < Len(StepOrder)
    /\ ctx' = [mode |-> mode, inputs |-> inputs, step |-> StepOrder[idx + 1],
               prior_results |-> IF step_results = <<>> THEN <<>>
                                 ELSE <<step_results[Len(step_results)]>>]
    /\ calls' = Append(calls, StepOrder[idx + 1])
    /\ ctxs' = Append(ctxs, ctx')
    /\ e_pc' = "call"
    /\ UNCHANGED <<executor, mode, inputs, idx, step_results, plan, diagnostics,
                   output, returned, plans, result>>
    /\ UNCHANGED engineFrame

\* run, lines 52-58: the context of the next step is built and the executor
\* is called with it.
CallExecutor ==
    /\ e_pc = "loop"
    /\ idx < Len(StepOrder)
    /\ ctx' = [mode |-> mode, inputs |-> inputs, step |-> StepOrder[idx + 1],
               prior_results |-> step_results]
    /\ calls' = Append(calls, StepOrder[idx + 1])
    /\ ctxs' = Append(ctxs, ctx')
    /\ e_pc' = "call"
    /\ UNCHANGED <<executor, mode, inputs, idx, step_results, plan, diagnostics,
                   output, returned, plans, result>>
    /\ UNCHANGED engineFrame

\* The executor hands its StepOutput back to run.
ExecutorReturns(out) ==
    /\ output' = out
    /\ returned' = Append(returned, out)
    /\ e_pc' = "ret"
    /\ UNCHANGED <<executor, mode, inputs, idx, step_results, plan, diagnostics,
                   ctx, calls, ctxs, plans, result>>

\* NoopExecutor::run_step
NoopRunStep ==
    /\ e_pc = "call"
    /\ executor = "noop"
    /\ ExecutorReturns(DefaultStepOutput)
    /\ UNCHANGED engineFrame

\* Any other implementation of the ProvisionExecutor trait.
StubRunStep ==
    /\ e_pc = "call"
    /\ executor = "stub"
    /\ \E out \in StubOutputs : ExecutorReturns(out)
    /\ UNCHANGED engineFrame

\* A mutant of RecordStep: the loop ends at the first step whose output
\* carries an error.
RecordStepAborting ==
    /\ e_pc = "ret"
    /\ plan' = IF IsSome(output.plan_patch)
               THEN merge_patch(plan, Unwrap(output.plan_patch))
               ELSE plan
    /\ diagnostics' = diagnostics \o output.diagnostics
    /\ step_results' = Append(step_results,
                              [output |-> output, step |-> StepOrder[idx + 1]])
    /\ idx' = IF output.data.t = "obj" /\ "error" \in DOMAIN output.data.v
              THEN Len(StepOrder) ELSE idx + 1
    /\ e_pc' = "loop"
    /\ plans' = Append(plans, plan')
    /\ UNCHANGED <<executor, mode, inputs, ctx, output, calls, ctxs, returned, result>>
    /\ UNCHANGED engineFrame

\* A mutant of RecordStep: a step without a plan patch is skipped over, its
\* diagnostics with it.
RecordStepSkippingDiagnostics ==
    /\ e_pc = "ret"
    /\ plan' = IF IsSome(output.plan_patch)
               THEN merge_patch(plan, Unwrap(output.plan_patch))
               ELSE plan
    /\ diagnostics' = IF IsSome(output.plan_patch)
                      THEN diagnostics \o output.diagnostics
                      ELSE diagnostics
    /\ step_results' = Append(step_results,
                              [output |-> output, step |-> StepOrder[idx + 1]])
    /\ idx' = idx + 1
    /\ e_pc' = "loop"
    /\ plans' = Append(plans, plan')
    /\ UNCHANGED <<executor, mode, inputs, ctx, output, calls, ctxs, returned, result>>
    /\ UNCHANGED engineFrame

\* run, lines 59-63: the patch is merged, the diagnostics appended and the
\* StepResult pushed.
RecordStep ==
    /\ e_pc = "ret"
    /\ plan' = IF IsSome(output.plan_patch)
               THEN merge_patch(plan, Unwrap(output.plan_patch))
               ELSE plan
    /\ diagnostics' = diagnostics \o output.diagnostics
    /\ step_results' = Append(step_results,
                              [output |-> output, step |-> StepOrder[idx + 1]])
    /\ idx' = idx + 1
    /\ e_pc' = "loop"
    /\ plans' = Append(plans, plan')
    /\ UNCHANGED <<executor, mode, inputs, ctx, output, calls, ctxs, returned, result>>
    /\ UNCHANGED engineFrame

\* run, lines 66-70: the ProvisionResult is returned.
Return ==
    /\ e_pc = "loop"
    /\ idx = Len(StepOrder)
    /\ result' = Some([step_results |-> Some(step_results), plan |-> plan,
                       diagnostics |-> diagnostics])
    /\ e_pc' = "done"
    /\ UNCHANGED <<executor, mode, inputs, idx, step_results, plan, diagnostics,
                   ctx, output, calls, ctxs, returned, plans>>
    /\ UNCHANGED engineFrame

----------------------------------------------------------------------------
(* executor.rs: results, errors and limits *)

Ok(v) == [ok |-> TRUE, val |-> v]

Err(e) == [ok |-> FALSE, err |-> e]

\* ExecutionLimits::default().max_output_bytes
max_output_bytes == 64 * 1024

\* execute_component, line 161: the fixed offset the input is written at.
input_ptr == 4096

\* A mutant of AsUsize: the length is compared as the signed number it was.
AsUsizeSigned(n) == [n |-> n, w |-> FALSE]

\* `n as usize` of an i32 n on a 64-bit target: w tells whether 2^64 was
\* added (n was negative); the value is n + 2^64 * w.
AsUsize(n) == [n |-> n, w |-> n < 0]

\* a > b for two usize values.
UsizeGt(a, b) == IF a.w # b.w THEN a.w ELSE a.n > b.n

\* a + b for two usize values that do not overflow.
UsizeAdd(a, b) == [n |-> a.n + b.n, w |-> a.w \/ b.w]

\* The Display text of an ExecutorError (lines 32-52): prefix and argument.
ErrToString(err) ==
    CASE err.kind = "ComponentNotFound" -> <<"component not found for step: ", err.arg>>
      [] err.kind = "Io"                -> <<"failed to read component: ", err.arg>>
      [] err.kind = "Compile"           -> <<"failed to compile component: ", err.arg>>
      [] err.kind = "Wat"               -> <<"failed to parse wat: ", err.arg>>
      [] err.kind = "Memory"            -> <<"memory access error: ", err.arg>>
      [] err.kind = "Trap"              -> <<"execution trap: ", err.arg>>
      [] err.kind = "OutputTooLarge"    -> <<"output too large: ", err.arg, " bytes">>
      [] err.kind = "InputTooLarge"     -> <<"input too large: ", err.arg, " bytes">>
      [] err.kind = "OutputJson"        -> <<"invalid output JSON: ", err.arg>>

ExecutorError(kind, arg) == [kind |-> kind, arg |-> arg]

\* run_step, lines 193-198
StepName(step) ==
    CASE step = "Collect"  -> "collect"
      [] step = "Validate" -> "validate"
      [] step = "Apply"    -> "apply"
      [] step = "Summary"  -> "summary"

----------------------------------------------------------------------------
(* executor.rs: resolve_component.  A path is root, file stem, extension. *)

Path(root, stem, ext) == [root |-> root, stem |-> stem, ext |-> ext]

Candidates(step_name) == << <<"setup_default__", step_name>>, <<"setup_default">> >>

Roots == <<"components", "wasm", "">>

Exts == <<"wasm", "wat">>

\* The order in which the loops of resolve_component probe the paths:
\* candidates outermost, then roots, and .wasm before .wat.
SearchOrder(step_name) ==
    [k \in 1..12 |->
        Path(Roots[(((k - 1) \div 2) % 3) + 1],
             Candidates(step_name)[((k - 1) \div 6) + 1],
             Exts[((k - 1) % 2) + 1])]

resolve_component(files, step_name) ==
    LET order == SearchOrder(step_name)
        hits  == {k \in 1..12 : order[k] \in files}
    IN  IF hits = {}
        THEN Err(ExecutorError("ComponentNotFound", step_name))
        ELSE Ok(order[CHOOSE k \in hits : \A j \in hits : k <= j])

----------------------------------------------------------------------------
(* executor.rs: step_output_from_json and plan_patch_from_value *)

\* serde_json::Value::get(key)
Get(value, key) ==
    IF value.t = "obj" /\ key \in DOMAIN value.v THEN Some(value.v[key]) ELSE None

\* Option<String> from a Value that is present.
IsOptString(v) == v.t \in {"null", "str"}

DeOptString(o) == IF IsSome(o) /\ Unwrap(o).t = "str" THEN Some(Unwrap(o).v) ELSE None

\* #[serde(default)] metadata: BTreeMap<String, Value>
IsMetadata(o) == IsSome(o) => Unwrap(o).t = "obj"

DeMetadata(o) == IF IsSome(o) THEN Unwrap(o).v ELSE EmptyMap

IsAbsentOr(o, P(_)) == IsSome(o) => P(Unwrap(o))

\* Deserialize for RedactedValue
IsRedactedValue(v) ==
    /\ v.t = "obj"
    /\ IsSome(Get(v, "redacted")) /\ Unwrap(Get(v, "redacted")).t = "bool"
    /\ IsAbsentOr(Get(v, "value"), IsOptString)

DeRedactedValue(v) ==
    [redacted |-> v.v["redacted"].v, value |-> DeOptString(Get(v, "value"))]

\* Deserialize for SecretsPatch: both fields are required.
IsSecretsPatch(v) ==
    /\ v.t = "obj"
    /\ IsSome(Get(v, "set")) /\ Unwrap(Get(v, "set")).t = "obj"
    /\ \A k \in DOMAIN v.v["set"].v : IsRedactedValue(v.v["set"].v[k])
    /\ IsSome(Get(v, "delete")) /\ Unwrap(Get(v, "delete")).t = "arr"
    /\ \A j \in DOMAIN v.v["delete"].v : v.v["delete"].v[j].t = "str"

DeSecretsPatch(v) ==
    [set    |-> [k \in DOMAIN v.v["set"].v |-> DeRedactedValue(v.v["set"].v[k])],
     delete |-> [j \in DOMAIN v.v["delete"].v |-> v.v["delete"].v[j].v]]

\* Deserialize for WebhookOp
IsWebhookOp(v) ==
    /\ v.t = "obj"
    /\ IsSome(Get(v, "op")) /\ Unwrap(Get(v, "op")).t = "str"
    /\ IsAbsentOr(Get(v, "id"), IsOptString)
    /\ IsAbsentOr(Get(v, "url"), IsOptString)
    /\ IsMetadata(Get(v, "metadata"))

DeWebhookOp(v) ==
    [op |-> v.v["op"].v, id |-> DeOptString(Get(v, "id")),
     url |-> DeOptString(Get(v, "url")), metadata |-> DeMetadata(Get(v, "metadata"))]

\* Deserialize for SubscriptionOp
IsSubscriptionOp(v) ==
    /\ v.t = "obj"
    /\ IsSome(Get(v, "op")) /\ Unwrap(Get(v, "op")).t = "str"
    /\ IsAbsentOr(Get(v, "id"), IsOptString)
    /\ IsMetadata(Get(v, "metadata"))

DeSubscriptionOp(v) ==
    [op |-> v.v["op"].v, id |-> DeOptString(Get(v, "id")),
     metadata |-> DeMetadata(Get(v, "metadata"))]

\* Deserialize for OAuthOp, an enum tagged by "op" with the one variant start.
IsOAuthOp(v) ==
    /\ v.t = "obj"
    /\ IsSome(Get(v, "op")) /\ Unwrap(Get(v, "op")) = JStr("start")
    /\ IsSome(Get(v, "provider")) /\ Unwrap(Get(v, "provider")).t = "str"
    /\ IsSome(Get(v, "scopes")) /\ Unwrap(Get(v, "scopes")).t = "arr"
    /\ \A j \in DOMAIN v.v["scopes"].v : v.v["scopes"].v[j].t = "str"
    /\ IsAbsentOr(Get(v, "redirect_url"), IsOptString)

DeOAuthOp(v) ==
    [op |-> "start", provider |-> v.v["provider"].v,
     scopes |-> [j \in DOMAIN v.v["scopes"].v |-> v.v["scopes"].v[j].v],
     redirect_url |-> DeOptString(Get(v, "redirect_url"))]

\* value.get(key).and_then(|v| v.as_array())
GetArray(value, key) ==
    IF IsSome(Get(value, key)) /\ Unwrap(Get(value, key)).t = "arr"
    THEN Some(Unwrap(Get(value, key)).v) ELSE None

\* The strings of a JSON array, in order (filter_map over as_str).
RECURSIVE StringsOf(_)
StringsOf(list) ==
    IF list = <<>> THEN <<>>
    ELSE (IF Head(list).t = "str" THEN <<Head(list).v>> ELSE <<>>)
             \o StringsOf(Tail(list))

plan_patch_from_value(value) ==
    LET config_patch ==
            IF IsSome(Get(value, "config_patch"))
               /\ Unwrap(Get(value, "config_patch")).t = "obj"
            THEN Some(Unwrap(Get(value, "config_patch")).v) ELSE None
        secrets_patch    == Get(value, "secrets_patch")
        webhook_ops      == GetArray(value, "webhook_ops")
        subscription_ops == GetArray(value, "subscription_ops")
        oauth_ops        == GetArray(value, "oauth_ops")
        notes ==
            IF IsSome(GetArray(value, "notes"))
            THEN Some(StringsOf(Unwrap(GetArray(value, "notes")))) ELSE None
        AllOf(o, P(_)) == IsSome(o) => \A j \in DOMAIN Unwrap(o) : P(Unwrap(o)[j])
    IN  IF ~IsAbsentOr(secrets_patch, IsSecretsPatch)
        THEN Err(ExecutorError("OutputJson", "secrets_patch"))
        ELSE IF ~AllOf(webhook_ops, IsWebhookOp)
        THEN Err(ExecutorError("OutputJson", "webhook_ops"))
        ELSE IF ~AllOf(subscription_ops, IsSubscriptionOp)
        THEN Err(ExecutorError("OutputJson", "subscription_ops"))
        ELSE IF ~AllOf(oauth_ops, IsOAuthOp)
        THEN Err(ExecutorError("OutputJson", "oauth_ops"))
        ELSE Ok([config_patch |-> config_patch,
                 secrets_patch |->
                    IF IsSome(secrets_patch)
                    THEN Some(DeSecretsPatch(Unwrap(secrets_patch))) ELSE None,
                 webhook_ops |->
                    IF IsSome(webhook_ops)
                    THEN Some([j \in DOMAIN Unwrap(webhook_ops) |->
                                  DeWebhookOp(Unwrap(webhook_ops)[j])])
                    ELSE None,
                 subscription_ops |->
                    IF IsSome(subscription_ops)
                    THEN Some([j \in DOMAIN Unwrap(subscription_ops) |->
                                  DeSubscriptionOp(Unwrap(subscription_ops)[j])])
                    ELSE None,
                 oauth_ops |->
                    IF IsSome(oauth_ops)
                    THEN Some([j \in DOMAIN Unwrap(oauth_ops) |->
                                  DeOAuthOp(Unwrap(oauth_ops)[j])])
                    ELSE None,
                 notes |-> notes])

\* step_output_from_json that drops a plan patch that does not deserialize.
step_output_from_json_partial(value) ==
    LET patch == IF IsSome(Get(value, "plan"))
                 THEN plan_patch_from_value(Unwrap(Get(value, "plan")))
                 ELSE Ok(EmptyPatch)
    IN  Ok([diagnostics |-> <<>>,
            data |-> value,
            plan_patch |-> IF IsSome(Get(value, "plan")) /\ patch.ok
                           THEN Some(patch.val) ELSE None,
            questions |-> Get(value, "questions")])

step_output_from_json(value) ==
    LET patch == IF IsSome(Get(value, "plan"))
                 THEN plan_patch_from_value(Unwrap(Get(value, "plan")))
                 ELSE Ok(EmptyPatch)
    IN  IF ~patch.ok
        THEN patch
        ELSE Ok([diagnostics |-> <<>>,
                 data |-> value,
                 plan_patch |-> IF IsSome(Get(value, "plan")) THEN Some(patch.val)
                                ELSE None,
                 questions |-> Get(value, "questions")])

----------------------------------------------------------------------------
(* The packs the executor is run on: each file of a pack is a module. *)

PageSize == 64 * 1024

Invocations == 1..Len(StepOrder)

\* What the guest's exported run does when called.
Returns(ptr, len, bytes) == [kind |-> "return", ptr |-> ptr, len |-> len, bytes |-> bytes]

Spins == [kind |-> "spin"]

Traps == [kind |-> "trap"]

\* A well-formed component whose run behaves as one of behaviours.
Module(behaviours) ==
    [behaviours |-> behaviours, readable |-> TRUE, wat_ok |-> TRUE, valid |-> TRUE,
     has_memory |-> TRUE, memory_size |-> 2 * PageSize, has_run |-> TRUE,
     run_typed |-> TRUE]

DocEmpty == JObj(EmptyMap)

DocPlan ==
    JObj([plan |-> JObj([config_patch |-> JObj([foo |-> JStr("bar")]),
                         secrets_patch |->
                            JObj([set |-> JObj([token |-> JObj([redacted |-> JBool(TRUE)])]),
                                  delete |-> JArr(<<>>)])]),
          ok |-> JBool(TRUE)])

DocNotes ==
    JObj([plan |-> JObj([config_patch |-> JStr("oops"),
                         oauth_ops |->
                            JArr(<<JObj([op |-> JStr("start"),
                                         provider |-> JStr("google"),
                                         scopes |-> JArr(<<JStr("mail")>>)])>>),
                         notes |-> JArr(<<JStr("n1"), JNum(1), JStr("n2")>>)]),
          questions |-> JArr(<<JStr("q1")>>)])

DocBadSecrets ==
    JObj([plan |-> JObj([config_patch |-> JObj([foo |-> JStr("lost")]),
                         secrets_patch |-> JObj([set |-> JObj(EmptyMap)])])])

PackFixture ==
    [f \in {Path("components", <<"setup_default">>, "wasm")} |->
        Module({Returns(8192, 120, Some(DocPlan)), Returns(8192, 2, Some(DocEmpty))})]

PackEmpty == EmptyMap

PackTimeout ==
    [f \in {Path("", <<"setup_default__", "collect">>, "wat"),
            Path("wasm", <<"setup_default">>, "wasm"),
            Path("", <<"setup_default">>, "wasm")} |->
        IF f.stem = <<"setup_default">>
        THEN IF f.root = "wasm"
             THEN Module({Returns(8192, 90, Some(DocNotes)), Traps, Spins})
             ELSE Module({Traps})
        ELSE Module({Spins})]

PackBadOutputs ==
    [f \in {Path("components", <<"setup_default__", "collect">>, "wasm"),
            Path("components", <<"setup_default">>, "wat")} |->
        IF f.stem = <<"setup_default">>
        THEN Module({Returns(8192, 40, Some(DocBadSecrets)),
                     Returns(8192, 7, None),
                     Returns(0, max_output_bytes, Some(DocEmpty))})
        ELSE Module({Returns(8192, max_output_bytes + 1, Some(DocPlan)),
                     Returns(8192, -1, Some(DocPlan)),
                     Returns(-8, 2, Some(DocEmpty)),
                     Returns(2 * PageSize - 1, 2, Some(DocEmpty))})]

PackBrokenFiles ==
    [f \in {Path("components", <<"setup_default__", "collect">>, "wasm"),
            Path("wasm", <<"setup_default__", "validate">>, "wat"),
            Path("", <<"setup_default__", "apply">>, "wasm"),
            Path("", <<"setup_default">>, "wat")} |->
        CASE f.stem = <<"setup_default__", "collect">> ->
                [Module({Traps}) EXCEPT !.readable = FALSE]
          [] f.stem = <<"setup_default__", "validate">> ->
                [Module({Traps}) EXCEPT !.wat_ok = FALSE]
          [] f.stem = <<"setup_default__", "apply">> ->
                [Module({Traps}) EXCEPT !.valid = FALSE]
          [] OTHER ->
                [Module({Traps}) EXCEPT !.has_memory = FALSE]]

PackBrokenExports ==
    [f \in {Path("components", <<"setup_default__", "collect">>, "wasm"),
            Path("components", <<"setup_default__", "validate">>, "wasm"),
            Path("components", <<"setup_default__", "apply">>, "wasm"),
            Path("components", <<"setup_default">>, "wasm")} |->
        CASE f.stem = <<"setup_default__", "collect">> ->
                [Module({Traps}) EXCEPT !.has_run = FALSE]
          [] f.stem = <<"setup_default__", "validate">> ->
                [Module({Traps}) EXCEPT !.memory_size = 0]
          [] f.stem = <<"setup_default__", "apply">> ->
                [Module({Traps}) EXCEPT !.memory_size = PageSize]
          [] OTHER ->
                [Module({Traps}) EXCEPT !.run_typed = FALSE]]

Packs == {PackFixture, PackEmpty, PackTimeout, PackBadOutputs, PackBrokenFiles,
          PackBrokenExports}

\* The lengths the serialized input of a step may have.
InputLens == {200, 62000, 70000}

----------------------------------------------------------------------------
(* executor.rs: WasmtimeExecutor::run_step, run_named_step, execute_component *)

\* The invocation of run_step in progress: the n-th of the run.
n == idx + 1

\* A mutant of RunStepOutput: the error output keeps an empty plan patch and
\* drops the step name.
RunStepOutputPartial(res, step_name) ==
    IF res.ok
    THEN res.val
    ELSE [diagnostics |-> <<>>,
          data |-> JObj([error |-> JStr(ErrToString(res.err))]),
          plan_patch |-> Some(PatchFooBar),
          questions |-> None]

\* run_step, lines 200-208: the match on run_named_step's result.
RunStepOutput(res, step_name) ==
    IF res.ok
    THEN res.val
    ELSE [diagnostics |-> <<>>,
          data |-> JObj([error |-> JStr(ErrToString(res.err)),
                         step |-> JStr(step_name)]),
          plan_patch |-> None,
          questions |-> None]

\* run_named_step returns res (from any of its exits) and run_step returns.
NamedStepReturns(res) ==
    /\ named_results' = Append(named_results, res)
    /\ ExecutorReturns(RunStepOutput(res, StepName(ctx.step)))
    /\ x_pc' = "idle"

\* run_named_step line 80 and execute_component lines 118-129: the component
\* is resolved and read, and the engine and store of this invocation made.
LoadComponent ==
    /\ e_pc = "call"
    /\ executor = "wasm"
    /\ x_pc = "idle"
    /\ LET path == resolve_component(DOMAIN pack, StepName(ctx.step))
       IN  IF ~path.ok
           THEN NamedStepReturns(path) /\ UNCHANGED component
           ELSE IF ~pack[path.val].readable
           THEN NamedStepReturns(Err(ExecutorError("Io", path.val)))
                /\ UNCHANGED component
           ELSE IF path.val.ext = "wat" /\ ~pack[path.val].wat_ok
           THEN NamedStepReturns(Err(ExecutorError("Wat", path.val)))
                /\ UNCHANGED component
           ELSE /\ component' = pack[path.val]
                /\ x_pc' = "spawn"
                /\ UNCHANGED <<engineVars, named_results>>
    /\ UNCHANGED <<pack, guest, output_json, epoch, deadline, watchdog, joined,
                   trapped, mem_reads>>
    /\ UNCHANGED execFrame

\* execute_component, lines 131-136: the watchdog thread is spawned with a
\* clone of this invocation's engine.
SpawnWatchdog ==
    /\ x_pc = "spawn"
    /\ watchdog' = [watchdog EXCEPT ![n] = "sleeping"]
    /\ x_pc' = "deadline"
    /\ UNCHANGED <<engineVars, pack, component, guest, output_json, epoch, deadline,
                   joined, trapped, mem_reads, named_results>>
    /\ UNCHANGED execFrame

\* A mutant of WatchdogFires: the invocations share one engine, so that the
\* watchdog of one bumps the epoch every store is compared with.
WatchdogFiresSharedEngine(i) ==
    /\ watchdog[i] = "sleeping"
    /\ epoch' = [j \in Invocations |-> epoch[j] + 1]
    /\ watchdog' = [watchdog EXCEPT ![i] = "done"]
    /\ UNCHANGED <<engineVars, pack, x_pc, component, guest, output_json, deadline,
                   joined, trapped, mem_reads, named_results>>
    /\ UNCHANGED execFrame

\* The watchdog thread of invocation i: its sleep is over and it increments
\* the epoch of the engine it holds.
WatchdogFires(i) ==
    /\ watchdog[i] = "sleeping"
    /\ epoch' = [epoch EXCEPT ![i] = @ + 1]
    /\ watchdog' = [watchdog EXCEPT ![i] = "done"]
    /\ UNCHANGED <<engineVars, pack, x_pc, component, guest, output_json, deadline,
                   joined, trapped, mem_reads, named_results>>
    /\ UNCHANGED execFrame

\* execute_component, line 137: store.set_epoch_deadline(1) sets the
\* deadline one tick beyond the engine's current epoch.
SetEpochDeadline ==
    /\ x_pc = "deadline"
    /\ deadline' = [deadline EXCEPT ![n] = epoch[n] + 1]
    /\ x_pc' = "instantiate"
    /\ UNCHANGED <<engineVars, pack, component, guest, output_json, epoch,
                   watchdog, joined, trapped, mem_reads, named_results>>
    /\ UNCHANGED execFrame

\* execute_component, lines 139-170: compile, instantiate, find the memory,
\* write the input, find run.  Every failure returns without joining.
Instantiate ==
    /\ x_pc = "instantiate"
    /\ \E len \in InputLens :
        IF ~component.valid
        THEN NamedStepReturns(Err(ExecutorError("Compile", "module")))
        ELSE IF ~component.has_memory
        THEN NamedStepReturns(Err(ExecutorError("Trap", "missing exported memory")))
        ELSE IF len > component.memory_size
        THEN NamedStepReturns(Err(ExecutorError("InputTooLarge", len)))
        ELSE IF input_ptr + len > component.memory_size
        THEN NamedStepReturns(Err(ExecutorError("InputTooLarge", len)))
        ELSE IF ~component.has_run
        THEN NamedStepReturns(Err(ExecutorError("Trap", "missing run export")))
        ELSE IF ~component.run_typed
        THEN NamedStepReturns(Err(ExecutorError("Compile", "type mismatch")))
        ELSE /\ x_pc' = "call"
             /\ UNCHANGED <<engineVars, named_results>>
    /\ UNCHANGED <<pack, component, guest, output_json, epoch, deadline, watchdog,
                   joined, trapped, mem_reads>>
    /\ UNCHANGED execFrame

\* execute_component, line 172: func.call enters the guest.
CallGuest ==
    /\ x_pc = "call"
    /\ \E b \in component.behaviours : guest' = b
    /\ x_pc' = "guest"
    /\ UNCHANGED <<engineVars, pack, component, output_json, epoch, deadline,
                   watchdog, joined, trapped, mem_reads, named_results>>
    /\ UNCHANGED execFrame

\* The guest's run returns (output_ptr, output_len) before its deadline.
GuestReturns ==
    /\ x_pc = "guest"
    /\ guest.kind = "return"
    /\ epoch[n] < deadline[n]
    /\ x_pc' = "decode"
    /\ UNCHANGED <<engineVars, pack, component, guest, output_json, epoch, deadline,
                   watchdog, joined, trapped, mem_reads, named_results>>
    /\ UNCHANGED execFrame

\* The guest traps of its own (unreachable); line 174 maps it to Trap.
GuestTraps ==
    /\ x_pc = "guest"
    /\ guest.kind = "trap"
    /\ epoch[n] < deadline[n]
    /\ trapped' = [trapped EXCEPT ![n] = TRUE]
    /\ NamedStepReturns(Err(ExecutorError("Trap", "wasm trap: unreachable")))
    /\ UNCHANGED <<pack, component, guest, output_json, epoch, deadline, watchdog,
                   joined, mem_reads>>
    /\ UNCHANGED execFrame

\* The epoch of the guest's engine has reached the store's deadline: the
\* next guest instruction traps; line 174 maps it to Trap.
EpochInterrupt ==
    /\ x_pc = "guest"
    /\ epoch[n] >= deadline[n]
    /\ trapped' = [trapped EXCEPT ![n] = TRUE]
    /\ NamedStepReturns(Err(ExecutorError("Trap", "wasm trap: interrupt")))
    /\ UNCHANGED <<pack, component, guest, output_json, epoch, deadline, watchdog,
                   joined, mem_reads>>
    /\ UNCHANGED execFrame

\* execute_component, lines 176-183: the length check, the read of the
\* guest's memory and the parse.  Every failure returns without joining.
ReadOutput ==
    /\ x_pc = "decode"
    /\ LET output_len == AsUsize(guest.len)
           output_ptr == AsUsize(guest.ptr)
       IN  IF UsizeGt(output_len, AsUsize(max_output_bytes))
           THEN /\ NamedStepReturns(Err(ExecutorError("OutputTooLarge", output_len)))
                /\ UNCHANGED <<mem_reads, output_json>>
           ELSE /\ mem_reads' = [mem_reads EXCEPT ![n] = @ + 1]
                /\ IF UsizeGt(UsizeAdd(output_ptr, output_len),
                              AsUsize(component.memory_size))
                   THEN /\ NamedStepReturns(Err(ExecutorError("Memory", "out of bounds")))
                        /\ UNCHANGED output_json
                   ELSE IF ~IsSome(guest.bytes)
                   THEN /\ NamedStepReturns(Err(ExecutorError("OutputJson", "syntax")))
                        /\ UNCHANGED output_json
                   ELSE /\ output_json' = Unwrap(guest.bytes)
                        /\ x_pc' = "join"
                        /\ UNCHANGED <<engineVars, named_results>>
    /\ UNCHANGED <<pack, component, guest, epoch, deadline, watchdog, joined, trapped>>
    /\ UNCHANGED execFrame

\* execute_component, lines 185-187, and run_named_step, line 82: the join
\* returns once the watchdog thread has ended; the output is decoded.
JoinAndDecode ==
    /\ x_pc = "join"
    /\ watchdog[n] = "done"
    /\ joined' = [joined EXCEPT ![n] = TRUE]
    /\ NamedStepReturns(step_output_from_json(output_json))
    /\ UNCHANGED <<pack, component, guest, output_json, epoch, deadline, watchdog,
                   trapped, mem_reads>>
    /\ UNCHANGED execFrame

ExecInit ==
    /\ x_pc = "idle"
    /\ component = None
    /\ guest = None
    /\ output_json = JNull
    /\ epoch = [i \in Invocations |-> 0]
    /\ deadline = [i \in Invocations |-> 0]
    /\ watchdog = [i \in Invocations |-> "none"]
    /\ joined = [i \in Invocations |-> FALSE]
    /\ trapped = [i \in Invocations |-> FALSE]
    /\ mem_reads = [i \in Invocations |-> 0]
    /\ named_results = <<>>

----------------------------------------------------------------------------
(* A driver of ProvisionPlan::merge_patch: two patches merged in turn. *)

\* The largest number of fields a drawn patch has present.
MaxPresent == 2

PlanFull ==
    [config_patch     |-> [foo |-> JStr("bar"), zeta |-> JNull],
     secrets_patch    |-> [set |-> [token |-> Redacted], delete |-> <<"old">>],
     webhook_ops      |-> <<WebhookA>>,
     subscription_ops |-> <<SubRegister>>,
     oauth_ops        |-> <<OAuthA>>,
     notes            |-> <<"n1">>]

PlanSet ==
    {DefaultPlan, PlanFull,
     [DefaultPlan EXCEPT !.config_patch = [foo |-> JStr("baz")],
                         !.notes = <<"n1", "n1">>]}

Present(patch) ==
    Cardinality({f \in DOMAIN patch : IsSome(patch[f])})

PatchSet ==
    {patch \in
        [config_patch : {None, Some([foo |-> JStr("bar")]), Some([foo |-> JStr("baz")]),
                         Some([zeta |-> JStr("z")])},
         secrets_patch : {None,
                          Some([set |-> [token |-> Plaintext("t")], delete |-> <<"old">>]),
                          Some([set |-> [token |-> Redacted, extra |-> Redacted],
                                delete |-> <<>>])},
         webhook_ops : {None, Some(<<WebhookA>>)},
         subscription_ops : {None, Some(<<SubRemove, SubRegister>>)},
         oauth_ops : {None, Some(<<OAuthA>>), Some(<<OAuthB>>)},
         notes : {None, Some(<<"n1">>), Some(<<>>)}] :
        Present(patch) <= MaxPresent}

MergeFirst ==
    /\ m_pc = "start"
    /\ m_acc' = merge_patch(m_acc, m_A)
    /\ m_pc' = "A"
    /\ UNCHANGED <<m_P, m_A, m_B>>
    /\ UNCHANGED mergeFrame

MergeSecond ==
    /\ m_pc = "A"
    /\ m_acc' = merge_patch(m_acc, m_B)
    /\ m_pc' = "AB"
    /\ UNCHANGED <<m_P, m_A, m_B>>
    /\ UNCHANGED mergeFrame

MergeIdle ==
    /\ m_pc = "off"
    /\ m_P = DefaultPlan
    /\ m_A = EmptyPatch
    /\ m_B = EmptyPatch
    /\ m_acc = DefaultPlan

----------------------------------------------------------------------------
(* apply.rs: the in-memory stores *)

\* The keys the model uses, in the ascending order a BTreeMap iterates them.
SortedKeys ==
    <<"a", "alpha", "b", "foo", "oauth_access_token", "oauth_refresh_token", "old",
      "secret", "token", "zeta">>

\* The keys of BTreeMap m in iteration order.
KeysInOrder(m) == SelectSeq(SortedKeys, LAMBDA k : k \in DOMAIN m)

\* A mutant of MapEntries: the entries from the last key to the first.
MapEntriesDescending(m) ==
    [j \in DOMAIN KeysInOrder(m) |->
        LET k == KeysInOrder(m)[Len(KeysInOrder(m)) + 1 - j] IN <<k, m[k]>>]

\* The entries of BTreeMap m as serde writes them: in iteration order.
MapEntries(m) == [j \in DOMAIN KeysInOrder(m) |-> <<KeysInOrder(m)[j], m[KeysInOrder(m)[j]]>>]

\* serde_json::to_string(&plan): the members of the JSON text in the order
\* they are written, maps as their entries and lists as they are.
to_string(plan_) ==
    <<<<"config_patch", MapEntries(plan_.config_patch)>>,
      <<"secrets_patch",
        <<<<"set", MapEntries(plan_.secrets_patch.set)>>,
          <<"delete", plan_.secrets_patch.delete>>>>>>,
      <<"webhook_ops", plan_.webhook_ops>>,
      <<"subscription_ops", plan_.subscription_ops>>,
      <<"oauth_ops", plan_.oauth_ops>>,
      <<"notes", plan_.notes>>>>

NamespaceOf(namespaces, ns) ==
    IF ns \in DOMAIN namespaces THEN namespaces[ns] ELSE EmptyMap

\* A mutant of InsertInto: an entry whose key is there already is kept.
InsertIntoKeepingExisting(namespaces, ns, entries) ==
    MapExtend(namespaces,
              [x \in {ns} |-> MapExtend(entries, NamespaceOf(namespaces, ns))])

\* InMemoryConfigStore::apply_patch and InMemorySecretsStore::set_secret:
\* the namespace is created if missing and the entries inserted.
InsertInto(namespaces, ns, entries) ==
    MapExtend(namespaces,
              [x \in {ns} |-> MapExtend(NamespaceOf(namespaces, ns), entries)])

\* InMemorySecretsStore::delete_secret
RemoveFrom(namespaces, ns, key) ==
    IF ns \in DOMAIN namespaces
    THEN [namespaces EXCEPT
            ![ns] = [k \in (DOMAIN namespaces[ns]) \ {key} |-> namespaces[ns][k]]]
    ELSE namespaces

SameInstall(r, tenant, provider_id, install_id) ==
    /\ r.tenant = tenant
    /\ r.provider_id = provider_id
    /\ r.install_id = install_id

\* A mutant of InstallPut: the record is pushed whatever the store holds.
InstallPutAppending(records, record) == Append(records, record)

\* InMemoryInstallStore::put: the first record of the same install is
\* replaced, else the record is pushed.
InstallPut(records, record) ==
    LET same == {j \in DOMAIN records :
                    SameInstall(records[j], record.tenant, record.provider_id,
                                record.install_id)}
    IN  IF same = {}
        THEN Append(records, record)
        ELSE [records EXCEPT ![CHOOSE j \in same : \A k \in same : j <= k] = record]

\* InMemoryInstallStore::get
InstallGet(records, tenant, provider_id, install_id) ==
    LET same == {j \in DOMAIN records :
                    SameInstall(records[j], tenant, provider_id, install_id)}
    IN  IF same = {} THEN None
        ELSE Some(records[CHOOSE j \in same : \A k \in same : j <= k])

----------------------------------------------------------------------------
(* apply.rs: ProvisionApplier::apply *)

\* The largest number of apply calls made on one applier.
MaxApplies == 3

OrUnknown(o) == IF IsSome(o) THEN Unwrap(o) ELSE <<"unknown">>

\* A mutant of provision_namespace: an absent tenant field is left out.
provision_namespace_eliding(tenant, provider_id, install_id) ==
    <<"provision">> \o <<":">> \o (IF IsSome(tenant.environment)
                                   THEN Unwrap(tenant.environment) ELSE <<>>)
        \o <<":">> \o (IF IsSome(tenant.tenant) THEN Unwrap(tenant.tenant) ELSE <<>>)
        \o <<":">> \o (IF IsSome(tenant.team) THEN Unwrap(tenant.team) ELSE <<>>)
        \o <<":">> \o provider_id
        \o <<":">> \o install_id

provision_namespace(tenant, provider_id, install_id) ==
    <<"provision">> \o <<":">> \o OrUnknown(tenant.environment)
        \o <<":">> \o OrUnknown(tenant.tenant)
        \o <<":">> \o OrUnknown(tenant.team)
        \o <<":">> \o provider_id
        \o <<":">> \o install_id

\* apply, line 340: format!("{}:secrets", namespace)
SecretsNamespace(namespace) == namespace \o <<":", "secrets">>

\* A mutant of redacted_to_value: the redacted flag is not looked at.
redacted_to_value_any(value) == value.value

redacted_to_value(value) ==
    IF value.redacted THEN None ELSE value.value

\* The string at key of an op's metadata, if there is one.
MetadataStr(metadata, key) ==
    IF key \in DOMAIN metadata /\ metadata[key].t = "str"
    THEN Some(metadata[key].v) ELSE None

\* A mutant of apply_subscription_ops: only register ops give a record.
RECURSIVE apply_subscription_ops_register_only(_)
apply_subscription_ops_register_only(ops) ==
    IF ops = <<>> THEN <<>>
    ELSE LET op == Head(ops)
         IN  (IF op.op = "register"
              THEN <<[id |-> IF IsSome(op.id) THEN Unwrap(op.id) ELSE "unknown",
                      resource |->
                         IF IsSome(MetadataStr(op.metadata, "resource"))
                         THEN Unwrap(MetadataStr(op.metadata, "resource"))
                         ELSE "unknown",
                      expiry |-> MetadataStr(op.metadata, "expiry"),
                      last_sync |-> None]>>
              ELSE <<>>) \o apply_subscription_ops_register_only(Tail(ops))

RECURSIVE apply_subscription_ops(_)
apply_subscription_ops(ops) ==
    IF ops = <<>> THEN <<>>
    ELSE LET op == Head(ops)
         IN  (IF op.op = "register" \/ op.op = "update"
              THEN <<[id |-> IF IsSome(op.id) THEN Unwrap(op.id) ELSE "unknown",
                      resource |->
                         IF IsSome(MetadataStr(op.metadata, "resource"))
                         THEN Unwrap(MetadataStr(op.metadata, "resource"))
                         ELSE "unknown",
                      expiry |-> MetadataStr(op.metadata, "expiry"),
                      last_sync |-> None]>>
              ELSE <<>>) \o apply_subscription_ops(Tail(ops))

\* apply, lines 368-375
InstallRecord(inp, plan_) ==
    [tenant |-> inp.tenant,
     provider_id |-> inp.provider_id,
     install_id |-> inp.install_id,
     config_namespace |->
        provision_namespace(inp.tenant, inp.provider_id, inp.install_id),
     secrets_namespace |->
        SecretsNamespace(provision_namespace(inp.tenant, inp.provider_id, inp.install_id)),
     subscriptions |-> apply_subscription_ops(plan_.subscription_ops)]

\* The calls apply makes on its stores and handler; site names the loop of
\* apply a secrets call is made from.
ApplyPatchCall(ns, patch) == [patch |-> patch, ns |-> ns, call |-> "apply_patch"]

SetSecretCall(site, ns, key, value) ==
    [value |-> value, key |-> key, ns |-> ns, call |-> "set_secret", site |-> site]

DeleteSecretCall(ns, key) == [key |-> key, ns |-> ns, call |-> "delete_secret"]

PutCall(record) == [record |-> record, call |-> "put"]

StartCall(op) == [op |-> op, call |-> "start"]

\* apply, lines 348-354: the loop over secrets_patch.set in key order.
RECURSIVE SecretSetCalls(_, _, _)
SecretSetCalls(keys, set, sns) ==
    IF keys = <<>> THEN <<>>
    ELSE (IF IsSome(redacted_to_value(set[Head(keys)]))
          THEN <<SetSecretCall("secrets_patch", sns, Head(keys),
                               Unwrap(redacted_to_value(set[Head(keys)])))>>
          ELSE <<>>) \o SecretSetCalls(Tail(keys), set, sns)

\* apply, lines 355-358: the loop over secrets_patch.delete.
SecretDeleteCalls(delete, sns) ==
    [j \in DOMAIN delete |-> DeleteSecretCall(sns, delete[j])]

\* apply, lines 382-400 in Apply mode: each op is started and the tokens it
\* yields are stored; tokens[j] is what the handler answers for the j-th op.
RECURSIVE OAuthCalls(_, _, _)
OAuthCalls(ops, tokens, sns) ==
    IF ops = <<>> THEN <<>>
    ELSE <<StartCall(Head(ops))>>
         \o (IF IsSome(Head(tokens))
             THEN <<SetSecretCall("oauth", sns, "oauth_access_token",
                                  Unwrap(Head(tokens)).access_token)>>
                  \o (IF IsSome(Unwrap(Head(tokens)).refresh_token)
                      THEN <<SetSecretCall("oauth", sns, "oauth_refresh_token",
                                           Unwrap(Unwrap(Head(tokens)).refresh_token))>>
                      ELSE <<>>)
             ELSE <<>>)
         \o OAuthCalls(Tail(ops), Tail(tokens), sns)

\* A mutant of ApplyCalls: the secrets are deleted before they are set.
ApplyCallsDeletesFirst(inp, plan_, mode_, tokens) ==
    LET namespace == provision_namespace(inp.tenant, inp.provider_id, inp.install_id)
        sns       == SecretsNamespace(namespace)
    IN  IF mode_ = "Apply"
        THEN <<ApplyPatchCall(namespace, plan_.config_patch)>>
             \o SecretDeleteCalls(plan_.secrets_patch.delete, sns)
             \o SecretSetCalls(KeysInOrder(plan_.secrets_patch.set),
                               plan_.secrets_patch.set, sns)
             \o <<PutCall(InstallRecord(inp, plan_))>>
             \o OAuthCalls(plan_.oauth_ops, tokens, sns)
        ELSE <<>>

\* A mutant of ApplyCalls: the install record is persisted in every mode.
ApplyCallsAlwaysPut(inp, plan_, mode_, tokens) ==
    LET namespace == provision_namespace(inp.tenant, inp.provider_id, inp.install_id)
        sns       == SecretsNamespace(namespace)
    IN  IF mode_ = "Apply"
        THEN <<ApplyPatchCall(namespace, plan_.config_patch)>>
             \o SecretSetCalls(KeysInOrder(plan_.secrets_patch.set),
                               plan_.secrets_patch.set, sns)
             \o SecretDeleteCalls(plan_.secrets_patch.delete, sns)
             \o <<PutCall(InstallRecord(inp, plan_))>>
             \o OAuthCalls(plan_.oauth_ops, tokens, sns)
        ELSE <<PutCall(InstallRecord(inp, plan_))>>

\* apply, lines 342-400: the calls made on the stores and the handler, in
\* the order of the statements that make them.
ApplyCalls(inp, plan_, mode_, tokens) ==
    LET namespace == provision_namespace(inp.tenant, inp.provider_id, inp.install_id)
        sns       == SecretsNamespace(namespace)
    IN  IF mode_ = "Apply"
        THEN <<ApplyPatchCall(namespace, plan_.config_patch)>>
             \o SecretSetCalls(KeysInOrder(plan_.secrets_patch.set),
                               plan_.secrets_patch.set, sns)
             \o SecretDeleteCalls(plan_.secrets_patch.delete, sns)
             \o <<PutCall(InstallRecord(inp, plan_))>>
             \o OAuthCalls(plan_.oauth_ops, tokens, sns)
        ELSE <<>>

\* The stores after one call of a store trait on the in-memory stores.
Perform(stores, c) ==
    CASE c.call = "apply_patch" ->
            [stores EXCEPT !.config = InsertInto(@, c.ns, c.patch)]
      [] c.call = "set_secret" ->
            [stores EXCEPT !.secrets = InsertInto(@, c.ns, [k \in {c.key} |-> c.value])]
      [] c.call = "delete_secret" ->
            [stores EXCEPT !.secrets = RemoveFrom(@, c.ns, c.key)]
      [] c.call = "put" ->
            [stores EXCEPT !.installs = InstallPut(@, c.record)]
      [] c.call = "start" -> stores

RECURSIVE PerformAll(_, _)
PerformAll(stores, cs) ==
    IF cs = <<>> THEN stores ELSE PerformAll(Perform(stores, Head(cs)), Tail(cs))

\* The keys of the set_secret calls made from the secrets_patch loop.
RECURSIVE SetKeysOf(_)
SetKeysOf(cs) ==
    IF cs = <<>> THEN <<>>
    ELSE (IF Head(cs).call = "set_secret" /\ Head(cs).site = "secrets_patch"
          THEN <<Head(cs).key>> ELSE <<>>) \o SetKeysOf(Tail(cs))

\* A mutant of ApplyReport: a dry run reports the secrets an Apply would
\* write and each deleted key once.
ApplyReportWrittenOnly(inp, plan_, mode_, cs) ==
    [mode |-> mode_,
     oauth_ops |-> plan_.oauth_ops,
     config_changes |-> KeysInOrder(plan_.config_patch),
     secret_set_keys |->
        SetKeysOf(SecretSetCalls(KeysInOrder(plan_.secrets_patch.set),
                                 plan_.secrets_patch.set, <<>>)),
     secret_deleted_keys |->
        SelectSeq(SortedKeys,
                  LAMBDA k : \E j \in DOMAIN plan_.secrets_patch.delete :
                                 plan_.secrets_patch.delete[j] = k),
     subscription_state |-> apply_subscription_ops(plan_.subscription_ops),
     install_record |-> InstallRecord(inp, plan_)]

\* apply, lines 342-365 and 402-410: the report.
ApplyReport(inp, plan_, mode_, cs) ==
    [mode |-> mode_,
     oauth_ops |-> plan_.oauth_ops,
     config_changes |-> KeysInOrder(plan_.config_patch),
     secret_set_keys |->
        IF mode_ = "Apply" THEN SetKeysOf(cs)
        ELSE KeysInOrder(plan_.secrets_patch.set),
     secret_deleted_keys |-> plan_.secrets_patch.delete,
     subscription_state |-> apply_subscription_ops(plan_.subscription_ops),
     install_record |-> InstallRecord(inp, plan_)]

\* What an OAuthHandler may answer from start.
TokenSets ==
    {None,
     Some([access_token |-> "at1", refresh_token |-> None]),
     Some([access_token |-> "at2", refresh_token |-> Some("rt2")])}

PlanOf(config_patch, set, delete, subscription_ops, oauth_ops) ==
    [DefaultPlan EXCEPT !.config_patch = config_patch,
                        !.secrets_patch = [set |-> set, delete |-> delete],
                        !.subscription_ops = subscription_ops,
                        !.oauth_ops = oauth_ops]

\* The plans apply is called with.
ApplyPlans ==
    {DefaultPlan,
     PlanOf([foo |-> JStr("bar")], EmptyMap, <<>>, <<>>, <<>>),
     PlanOf(EmptyMap, [secret |-> Plaintext("value")], <<"old">>, <<>>, <<>>),
     PlanOf([foo |-> JStr("baz"), zeta |-> JNull],
            [b |-> Plaintext("v2"),
             token |-> Redacted,
             a |-> [redacted |-> FALSE, value |-> None],
             secret |-> [redacted |-> TRUE, value |-> Some("leak")]],
            <<"secret", "old", "old">>,
            <<[op |-> "update", id |-> None, metadata |-> EmptyMap],
              SubRemove,
              [op |-> "register", id |-> Some("s3"),
               metadata |-> [resource |-> JNull, expiry |-> JStr("2031")]],
              SubRegister,
              [op |-> "update", id |-> Some("s4"),
               metadata |-> [resource |-> JStr("drive"), expiry |-> JNull]]>>,
            <<>>),
     PlanOf(EmptyMap, [oauth_access_token |-> Plaintext("mine")],
            <<"oauth_access_token">>, <<>>, <<OAuthA>>),
     PlanOf([foo |-> JStr("bar")], [b |-> Plaintext("v1")], <<"b">>,
            <<SubRegister>>, <<OAuthA, OAuthB>>)}

\* ProvisionApplier::apply(result, mode) on the in-memory stores, with an
\* OAuth handler that answers tokens.
Apply(res, mode_, tokens) ==
    /\ applies < MaxApplies
    /\ LET cs     == ApplyCalls(a_inputs, res.plan, mode_, tokens)
           stores == PerformAll([config |-> config_store, secrets |-> secrets_store,
                                 installs |-> install_store], cs)
       IN  /\ effects' = cs
           /\ config_store' = stores.config
           /\ secrets_store' = stores.secrets
           /\ install_store' = stores.installs
           /\ report' = ApplyReport(a_inputs, res.plan, mode_, cs)
    /\ a_result' = res
    /\ a_mode' = mode_
    /\ applies' = applies + 1
    /\ UNCHANGED a_inputs
    /\ UNCHANGED applyFrame

\* The inputs appliers are made for: those of the engine, and the production
\* install once more for a user of the tenant and for a tenant whose fields
\* are spelled unknown.
ApplierInputs ==
    InputsSet \cup
    {MkInputs([TenantProd EXCEPT !.user = Some(<<"alice">>)], <<"p">>, <<"i">>,
              JObj(EmptyMap)),
     MkInputs([environment |-> Some(<<"unknown">>), tenant |-> Some(<<"unknown">>),
               team |-> Some(<<"unknown">>), user |-> None], <<"p">>, <<"i">>,
              JObj(EmptyMap))}

\* ProvisionApplier::into_parts followed by ProvisionApplier::new: an applier
\* for the inputs i is made over the stores of the applier that has applied.
NewApplier(i) ==
    /\ applies < MaxApplies
    /\ a_result # None
    /\ i # a_inputs
    /\ a_inputs' = i
    /\ a_result' = None
    /\ a_mode' = None
    /\ effects' = <<>>
    /\ report' = None
    /\ UNCHANGED <<config_store, secrets_store, install_store, applies>>
    /\ UNCHANGED applyFrame

\* The handler's answers to the ops of a plan: none are asked for in DryRun.
TokenAnswers(plan_, mode_) ==
    IF mode_ = "Apply"
    THEN [DOMAIN plan_.oauth_ops -> TokenSets]
    ELSE {[j \in DOMAIN plan_.oauth_ops |-> None]}

ApplyIdle ==
    /\ a_inputs = None
    /\ config_store = EmptyMap
    /\ secrets_store = EmptyMap
    /\ install_store = <<>>
    /\ applies = 0
    /\ a_result = None
    /\ a_mode = None
    /\ effects = <<>>
    /\ report = None

----------------------------------------------------------------------------
(* apply.rs: InMemoryInstallStore and FileInstallStore under put, get and  *)
(* delete                                                                   *)

\* The largest number of puts and deletes made on one store.
MaxStoreOps == 4

\* InstallStore::delete: the records retained.
InstallDelete(records, tenant, provider_id, install_id) ==
    SelectSeq(records, LAMBDA r : ~SameInstall(r, tenant, provider_id, install_id))

\* The installs the store is driven with.
InstallKeys ==
    {[tenant |-> TenantDefault, provider_id |-> <<"p">>, install_id |-> <<"i">>],
     [tenant |-> TenantProd, provider_id |-> <<"p">>, install_id |-> <<"i">>],
     [tenant |-> TenantDefault, provider_id |-> <<"q">>, install_id |-> <<"i">>]}

KeyOf(r) ==
    [tenant |-> r.tenant, provider_id |-> r.provider_id, install_id |-> r.install_id]

\* The records the store is driven with: two for each install.
StoreRecords ==
    {InstallRecord(MkInputs(k.tenant, k.provider_id, k.install_id, JNull),
                   PlanOf(EmptyMap, EmptyMap, <<>>, subs, <<>>)) :
        k \in InstallKeys, subs \in {<<>>, <<SubRegister>>}}

\* What an action of the install store driver leaves unchanged.
installFrame == <<driverFrame, resolveVars, decodeVars>>

\* InstallStore::put that undoes the update when persist fails.
StorePutRollingBack(record, persisted) ==
    /\ i_ops < MaxStoreOps
    /\ persisted => i_kind = "file"
    /\ i_records' = IF i_kind = "file" /\ ~persisted THEN i_records
                    ELSE InstallPut(i_records, record)
    /\ i_file' = IF persisted THEN Some(i_records') ELSE i_file
    /\ i_last' = [op |-> "put", key |-> KeyOf(record), persisted |-> persisted,
                  before |-> i_records, ret |-> None]
    /\ i_latest' = [i_latest EXCEPT ![KeyOf(record)] = Some(record)]
    /\ i_ops' = i_ops + 1
    /\ UNCHANGED i_kind
    /\ UNCHANGED installFrame

\* InstallStore::put; persisted tells whether FileInstallStore::persist,
\* whose error put ignores, wrote the file.
StorePut(record, persisted) ==
    /\ i_ops < MaxStoreOps
    /\ persisted => i_kind = "file"
    /\ i_records' = InstallPut(i_records, record)
    /\ i_file' = IF persisted THEN Some(i_records') ELSE i_file
    /\ i_last' = [op |-> "put", key |-> KeyOf(record), persisted |-> persisted,
                  before |-> i_records, ret |-> None]
    /\ i_latest' = [i_latest EXCEPT ![KeyOf(record)] = Some(record)]
    /\ i_ops' = i_ops + 1
    /\ UNCHANGED i_kind
    /\ UNCHANGED installFrame

\* InstallStore::delete; the file is written only if a record was removed.
StoreDelete(key, persisted) ==
    /\ i_ops < MaxStoreOps
    /\ i_records' = InstallDelete(i_records, key.tenant, key.provider_id,
                                  key.install_id)
    /\ LET removed == Len(i_records) # Len(i_records')
       IN  /\ persisted => (i_kind = "file" /\ removed)
           /\ i_last' = [op |-> "delete", key |-> key, persisted |-> persisted,
                         before |-> i_records, ret |-> removed]
    /\ i_file' = IF persisted THEN Some(i_records') ELSE i_file
    /\ i_latest' = [i_latest EXCEPT ![key] = None]
    /\ i_ops' = i_ops + 1
    /\ UNCHANGED i_kind
    /\ UNCHANGED installFrame

\* InstallStore::list
InstallList(records, tenant) == SelectSeq(records, LAMBDA r : r.tenant = tenant)

\* InstallStore::get
StoreGet(key) ==
    /\ i_last' = [op |-> "get", key |-> key, persisted |-> FALSE,
                  before |-> i_records,
                  ret |-> InstallGet(i_records, key.tenant, key.provider_id,
                                     key.install_id)]
    /\ UNCHANGED <<i_kind, i_records, i_file, i_ops, i_latest>>
    /\ UNCHANGED installFrame

\* serde's Serialize of a ProviderInstallRecord (lines 29-45) and of its
\* TenantContext (types.rs, lines 25-31): a member for each field, a String
\* as a JSON string, an absent Option as null.
InstallRecordToJson(r) ==
    LET OptStr(o) == IF IsSome(o) THEN JStr(Unwrap(o)) ELSE JNull
    IN  JObj([tenant |-> JObj([f \in DOMAIN r.tenant |-> OptStr(r.tenant[f])]),
              provider_id |-> JStr(r.provider_id),
              install_id |-> JStr(r.install_id),
              config_namespace |-> JStr(r.config_namespace),
              secrets_namespace |-> JStr(r.secrets_namespace),
              subscriptions |->
                 JArr([j \in 1..Len(r.subscriptions) |->
                         JObj([id |-> JStr(r.subscriptions[j].id),
                               resource |-> JStr(r.subscriptions[j].resource),
                               expiry |-> OptStr(r.subscriptions[j].expiry),
                               last_sync |-> OptStr(r.subscriptions[j].last_sync)])])])

\* serde's Deserialize of a ProviderInstallRecord: a null member of an
\* Option field is None, a string is Some of it.
InstallRecordFromJson(json) ==
    LET StrOpt(member) == IF member.t = "null" THEN None ELSE Some(member.v)
        o == json.v
    IN  [tenant |-> [f \in DOMAIN o.tenant.v |-> StrOpt(o.tenant.v[f])],
         provider_id |-> o.provider_id.v,
         install_id |-> o.install_id.v,
         config_namespace |-> o.config_namespace.v,
         secrets_namespace |-> o.secrets_namespace.v,
         subscriptions |->
            [j \in 1..Len(o.subscriptions.v) |->
               [id |-> o.subscriptions.v[j].v.id.v,
                resource |-> o.subscriptions.v[j].v.resource.v,
                expiry |-> StrOpt(o.subscriptions.v[j].v.expiry),
                last_sync |-> StrOpt(o.subscriptions.v[j].v.last_sync)]]]

\* FileInstallStore::persist, line 86: the text written for the records the
\* file was last written with.
FileContents(file) ==
    JArr([j \in 1..Len(Unwrap(file)) |-> InstallRecordToJson(Unwrap(file)[j])])

\* A mutant of load_records: the last record of the file is not read.
load_records_short(file) ==
    IF file = None THEN Ok(<<>>)
    ELSE LET contents == FileContents(file).v
         IN  Ok(<<>> \o [j \in 1..(Len(contents) - 1) |-> InstallRecordFromJson(contents[j])])

\* load_records: no records when nothing is at the path, else the records
\* the text at the path deserializes to.
load_records(file) ==
    IF file = None THEN Ok(<<>>)
    ELSE LET contents == FileContents(file).v
         IN  Ok(<<>> \o [j \in 1..Len(contents) |-> InstallRecordFromJson(contents[j])])

\* The install store driver at rest.
InstallIdle ==
    /\ i_kind = None
    /\ i_records = <<>>
    /\ i_file = None
    /\ i_ops = 0
    /\ i_last = None
    /\ i_latest = None

----------------------------------------------------------------------------
(* executor.rs: resolve_component applied to drawn packs *)

\* The files a drawn pack may hold: the twelve the step is probed at and
\* the component of a step that is not asked for.
PackPaths(step_name) ==
    {Path(root, stem, ext) :
        root \in {"components", "wasm", ""},
        stem \in {<<"setup_default__", step_name>>, <<"setup_default">>},
        ext \in {"wasm", "wat"}}
    \cup {Path("components", <<"setup_default__", "other">>, "wasm")}

\* run_named_step, line 80: the component of the step is resolved.
Resolve ==
    /\ r_step # None
    /\ r_path = None
    /\ r_path' = resolve_component(r_files, Unwrap(r_step))
    /\ UNCHANGED <<r_files, r_step>>
    /\ UNCHANGED <<driverFrame, installVars, decodeVars>>

----------------------------------------------------------------------------
(* executor.rs: step_output_from_json on drawn guest outputs *)

\* The JSON object holding the fields of r that are present.
ObjectOf(r) == JObj([k \in {f \in DOMAIN r : IsSome(r[f])} |-> Unwrap(r[k])])

\* The values a guest can put under the fields of .plan; each may be absent.
\* config_patch: an object, a string.  notes: an array with a number between
\* two strings, a string.  oauth_ops: an array that deserializes, an array
\* whose element names a variant OAuthOp does not have.  secrets_patch: one
\* that deserializes, null, an object without "delete", an entry of "set"
\* without "redacted".  subscription_ops: an array that deserializes, an
\* array whose element has a number for "op".  webhook_ops: an array that
\* deserializes, an array whose second element has no "op", a string.
DecodePlanFields ==
    [config_patch |->
        <<None, Some(JObj([foo |-> JStr("bar")])), Some(JStr("oops"))>>,
     secrets_patch |->
        <<None,
          Some(JObj([set |-> JObj([token |-> JObj([redacted |-> JBool(TRUE)])]),
                     delete |-> JArr(<<JStr("old")>>)])),
          Some(JNull),
          Some(JObj([set |-> JObj(EmptyMap)])),
          Some(JObj([set |-> JObj([token |-> JObj([value |-> JStr("s3cret")])]),
                     delete |-> JArr(<<>>)]))>>,
     webhook_ops |->
        <<None,
          Some(JArr(<<JObj([op |-> JStr("register"), url |-> JStr("https://hook")])>>)),
          Some(JArr(<<JObj([op |-> JStr("register")]), JObj([id |-> JStr("w1")])>>)),
          Some(JStr("not-an-array"))>>,
     subscription_ops |->
        <<None,
          Some(JArr(<<JObj([op |-> JStr("sync"), id |-> JNull])>>)),
          Some(JArr(<<JObj([op |-> JNum(1)])>>))>>,
     oauth_ops |->
        <<None,
          Some(JArr(<<JObj([op |-> JStr("start"), provider |-> JStr("google"),
                            scopes |-> JArr(<<JStr("mail")>>)])>>)),
          Some(JArr(<<JObj([op |-> JStr("refresh"), provider |-> JStr("google"),
                            scopes |-> JArr(<<>>)])>>))>>,
     notes |->
        <<None, Some(JArr(<<JStr("n1"), JNum(1), JStr("n2")>>)), Some(JStr("n"))>>]

\* A choice of one value for each field of .plan.
DecodePlanChoices ==
    {c \in [DOMAIN DecodePlanFields -> 1..5] :
        \A f \in DOMAIN c : c[f] <= Len(DecodePlanFields[f])}

\* The .plan of a choice.
DecodePlan(c) == ObjectOf([f \in DOMAIN c |-> DecodePlanFields[f][c[f]]])

\* A guest's output with the given .plan, with or without .ok, and with
\* .questions absent, null or an array.
DecodeValue(ok, questions, plan_) ==
    ObjectOf([plan |-> plan_,
              questions |-> <<None, Some(JNull), Some(JArr(<<JStr("q1")>>))>>[questions],
              ok |-> <<None, Some(JBool(TRUE))>>[ok]])

\* step_output_from_json(value) on the drawn value.
Decode ==
    /\ d_value # None
    /\ d_output = None
    /\ d_output' = Some(step_output_from_json(Unwrap(d_value)))
    /\ UNCHANGED d_value
    /\ UNCHANGED <<driverFrame, installVars, resolveVars>>

----------------------------------------------------------------------------
(* discovery.rs: DefaultProvisionPackDiscovery *)

\* Option::or
OrElse(a, b) == IF IsSome(a) THEN a ELSE b

\* The first element of a sequence of options that is present (find_map).
FirstSome(seq) ==
    IF \E j \in DOMAIN seq : IsSome(seq[j])
    THEN seq[CHOOSE j \in DOMAIN seq :
                /\ IsSome(seq[j])
                /\ \A h \in 1..(j - 1) : ~IsSome(seq[h])]
    ELSE None

\* EntryFlows: Empty, Map(BTreeMap<String, String>) or List(Vec<EntryFlowDescriptor>)
EntryFlowsEmpty == [map |-> EmptyMap, kind |-> "Empty", list |-> <<>>]

EntryFlowsMap(map) == [map |-> map, kind |-> "Map", list |-> <<>>]

EntryFlowsList(list) == [map |-> EmptyMap, kind |-> "List", list |-> list]

\* A mutant of entry_flow_from_meta: the first list record that matches the
\* entry name decides, whether or not it names a flow.
entry_flow_from_meta_first_match(entry_flows, entry_name) ==
    CASE entry_flows.kind = "Empty" -> None
      [] entry_flows.kind = "Map" ->
            IF entry_name \in DOMAIN entry_flows.map
            THEN Some(entry_flows.map[entry_name]) ELSE None
      [] entry_flows.kind = "List" ->
            LET matching == {j \in DOMAIN entry_flows.list :
                               OrElse(entry_flows.list[j].entry,
                                      entry_flows.list[j].name) = Some(entry_name)}
            IN  IF matching = {} THEN None
                ELSE LET flow == entry_flows.list[CHOOSE j \in matching :
                                                     \A h \in matching : j <= h]
                     IN  OrElse(flow.id, OrElse(flow.flow_id, flow.name))

entry_flow_from_meta(entry_flows, entry_name) ==
    CASE entry_flows.kind = "Empty" -> None
      [] entry_flows.kind = "Map" ->
            IF entry_name \in DOMAIN entry_flows.map
            THEN Some(entry_flows.map[entry_name]) ELSE None
      [] entry_flows.kind = "List" ->
            FirstSome([j \in DOMAIN entry_flows.list |->
                LET flow == entry_flows.list[j]
                IN  IF OrElse(flow.entry, flow.name) = Some(entry_name)
                    THEN OrElse(flow.id, OrElse(flow.flow_id, flow.name))
                    ELSE None])

entry_flow_id(pack_, entry_name) ==
    IF IsSome(entry_flow_from_meta(pack_.meta.entry_flows, entry_name))
    THEN entry_flow_from_meta(pack_.meta.entry_flows, entry_name)
    ELSE FirstSome([j \in DOMAIN pack_.flows |->
            LET flow == pack_.flows[j]
            IN  IF OrElse(flow.entry, flow.name) = Some(entry_name)
                THEN OrElse(flow.id, flow.name)
                ELSE None])

\* discover that also fails when the requirements entry does not resolve.
discover_requiring_all(pack_) ==
    IF ~IsSome(entry_flow_id(pack_, "setup"))
       \/ ~IsSome(entry_flow_id(pack_, "requirements"))
    THEN None
    ELSE Some([outputs |-> pack_.meta.capabilities,
               pack_id |-> pack_.id,
               pack_version |-> pack_.version,
               requirements_flow |-> entry_flow_id(pack_, "requirements"),
               requires_public_base_url |-> pack_.meta.requires_public_base_url,
               setup_entry_flow |-> Unwrap(entry_flow_id(pack_, "setup")),
               subscriptions_flow |-> entry_flow_id(pack_, "subscriptions")])

discover(pack_) ==
    IF ~IsSome(entry_flow_id(pack_, "setup"))
    THEN None
    ELSE Some([outputs |-> pack_.meta.capabilities,
               pack_id |-> pack_.id,
               pack_version |-> pack_.version,
               requirements_flow |-> entry_flow_id(pack_, "requirements"),
               requires_public_base_url |-> pack_.meta.requires_public_base_url,
               setup_entry_flow |-> Unwrap(entry_flow_id(pack_, "setup")),
               subscriptions_flow |-> entry_flow_id(pack_, "subscriptions")])

\* The longest meta.entry_flows list and flows list of a drawn manifest.
MaxFlows == 2

\* Sequences over S of length up to n.
SeqUpTo(S, len) == UNION {[1..k -> S] : k \in 0..len}

\* The EntryFlowDescriptors of the drawn manifests.
EntryFlowDescriptors ==
    {[id |-> Some("a"), entry |-> Some("setup"), name |-> None, flow_id |-> Some("b")],
     [id |-> None, entry |-> Some("setup"), name |-> None, flow_id |-> Some("b")],
     [id |-> None, entry |-> None, name |-> Some("setup"), flow_id |-> None],
     [id |-> None, entry |-> Some("setup"), name |-> None, flow_id |-> None],
     [id |-> Some("r"), entry |-> Some("requirements"), name |-> Some("setup"),
      flow_id |-> None],
     [id |-> None, entry |-> Some("subscriptions"), name |-> Some("n"),
      flow_id |-> None]}

\* The PackFlows of the drawn manifests.
PackFlows ==
    {[id |-> Some("f"), entry |-> Some("setup"), name |-> None],
     [id |-> None, entry |-> None, name |-> Some("setup")],
     [id |-> None, entry |-> Some("setup"), name |-> None],
     [id |-> Some("q"), entry |-> Some("requirements"), name |-> Some("setup")]}

\* The manifests discover is applied to: meta.entry_flows absent, a map over
\* any of the three entry names, or a list; any flows.
PackManifests ==
    {[id |-> "pack-1",
      meta |-> [entry_flows |-> ef,
                capabilities |-> caps,
                requires_public_base_url |-> url],
      flows |-> fl,
      version |-> "1.0.0"] :
        caps \in {<<>>, <<"webhooks", "oauth">>},
        url \in BOOLEAN,
        fl \in SeqUpTo(PackFlows, MaxFlows),
        ef \in {EntryFlowsEmpty}
               \cup {EntryFlowsMap([e \in es |-> <<"flow-of-", e>>]) :
                        es \in SUBSET {"setup", "requirements", "subscriptions"}}
               \cup {EntryFlowsList(l) : l \in SeqUpTo(EntryFlowDescriptors, MaxFlows)}}

\* DefaultProvisionPackDiscovery::discover(&manifest)
Discover ==
    /\ p_manifest # None
    /\ p_descriptor = None
    /\ p_descriptor' = Some(discover(Unwrap(p_manifest)))
    /\ UNCHANGED p_manifest
    /\ UNCHANGED <<cliFrame, loadVars, conformanceVars>>

----------------------------------------------------------------------------
(* main.rs: load_manifest and the manifest normalization *)

\* Deserialize for PackFlow: three optional strings, other fields ignored.
IsPackFlow(v) ==
    /\ v.t = "obj"
    /\ IsAbsentOr(Get(v, "entry"), IsOptString)
    /\ IsAbsentOr(Get(v, "id"), IsOptString)
    /\ IsAbsentOr(Get(v, "name"), IsOptString)

DePackFlow(v) ==
    [id |-> DeOptString(Get(v, "id")), entry |-> DeOptString(Get(v, "entry")),
     name |-> DeOptString(Get(v, "name"))]

\* Deserialize for EntryFlowDescriptor
IsEntryFlowDescriptor(v) ==
    /\ IsPackFlow(v)
    /\ IsAbsentOr(Get(v, "flow_id"), IsOptString)

DeEntryFlowDescriptor(v) ==
    [id |-> DeOptString(Get(v, "id")),
     entry |-> DeOptString(Get(v, "entry")),
     name |-> DeOptString(Get(v, "name")),
     flow_id |-> DeOptString(Get(v, "flow_id"))]

\* Deserialize for the untagged EntryFlows: null, a map of strings or a list
\* of descriptors.
IsEntryFlows(v) ==
    \/ v.t = "null"
    \/ v.t = "obj" /\ \A k \in DOMAIN v.v : v.v[k].t = "str"
    \/ v.t = "arr" /\ \A j \in DOMAIN v.v : IsEntryFlowDescriptor(v.v[j])

DeEntryFlows(o) ==
    IF ~IsSome(o) \/ Unwrap(o).t = "null" THEN EntryFlowsEmpty
    ELSE IF Unwrap(o).t = "obj"
    THEN EntryFlowsMap([k \in DOMAIN Unwrap(o).v |-> Unwrap(o).v[k].v])
    ELSE EntryFlowsList([j \in DOMAIN Unwrap(o).v |->
                            DeEntryFlowDescriptor(Unwrap(o).v[j])])

IsStrings(v) == v.t = "arr" /\ \A j \in DOMAIN v.v : v.v[j].t = "str"

IsBool(v) == v.t = "bool"

\* Deserialize for PackMeta: every field has a default.
IsPackMeta(v) ==
    /\ v.t = "obj"
    /\ IsAbsentOr(Get(v, "entry_flows"), IsEntryFlows)
    /\ IsAbsentOr(Get(v, "requires_public_base_url"), IsBool)
    /\ IsAbsentOr(Get(v, "capabilities"), IsStrings)

DePackMeta(o) ==
    LET Field(key) == IF IsSome(o) THEN Get(Unwrap(o), key) ELSE None
    IN  [entry_flows |-> DeEntryFlows(Field("entry_flows")),
         capabilities |->
            IF IsSome(Field("capabilities"))
            THEN [j \in DOMAIN Unwrap(Field("capabilities")).v |->
                     Unwrap(Field("capabilities")).v[j].v]
            ELSE <<>>,
         requires_public_base_url |->
            IF IsSome(Field("requires_public_base_url"))
            THEN Unwrap(Field("requires_public_base_url")).v ELSE FALSE]

IsPackFlows(v) == v.t = "arr" /\ \A j \in DOMAIN v.v : IsPackFlow(v.v[j])

\* Deserialize for PackManifest: id and version are required strings, meta
\* and flows have defaults.
IsPackManifest(v) ==
    /\ v.t = "obj"
    /\ IsSome(Get(v, "id")) /\ Unwrap(Get(v, "id")).t = "str"
    /\ IsSome(Get(v, "version")) /\ Unwrap(Get(v, "version")).t = "str"
    /\ IsAbsentOr(Get(v, "meta"), IsPackMeta)
    /\ IsAbsentOr(Get(v, "flows"), IsPackFlows)

DePackManifest(v) ==
    [id |-> v.v["id"].v,
     meta |-> DePackMeta(Get(v, "meta")),
     flows |-> IF IsSome(Get(v, "flows"))
               THEN [j \in DOMAIN v.v["flows"].v |-> DePackFlow(v.v["flows"].v[j])]
               ELSE <<>>,
     version |-> v.v["version"].v]

\* The values a manifest file can hold under the fields of the manifest
\* object; each may be absent.  body is meta and flows together: neither, a
\* setup entry in meta.entry_flows with a flow that names its entry, or only
\* a flow that lists its entrypoints.
ManifestFields ==
    [id |-> <<None, Some(JStr("explicit-pack"))>>,
     pack_id |-> <<None, Some(JStr("legacy-pack")), Some(JNum(0)), Some(JNum(1))>>,
     pack_version |-> <<None, Some(JStr("0.1.0")), Some(JNum(3))>>,
     version |-> <<None, Some(JStr("0.4.18"))>>,
     packId |-> <<None, Some(JStr("camel-pack")), Some(JNum(0))>>,
     packVersion |-> <<None, Some(JStr("0.0.1"))>>,
     symbols |-> <<None,
                   Some(JObj([pack_ids |-> JArr(<<JStr("messaging-telegram")>>)])),
                   Some(JObj(EmptyMap)),
                   Some(JObj([pack_ids |-> JArr(<<JNum(7)>>)]))>>]

ManifestBodies ==
    <<[meta |-> None, flows |-> None],
      [meta |-> Some(JObj([entry_flows |-> JObj([setup |-> JStr("setup-flow")])])),
       flows |-> Some(JArr(<<JObj([id |-> JStr("setup"), entry |-> JStr("setup")])>>))],
      [meta |-> None,
       flows |-> Some(JArr(<<JObj([id |-> JStr("setup_default"),
                                   entrypoints |-> JArr(<<JStr("setup")>>)])>>))]>>

\* A choice of one value for each field and of a body.
ManifestChoices ==
    {c \in [DOMAIN ManifestFields \cup {"body"} -> 1..4] :
        /\ c["body"] <= Len(ManifestBodies)
        /\ \A f \in DOMAIN ManifestFields : c[f] <= Len(ManifestFields[f])}

\* The manifest object of a choice.
ManifestObject(c) ==
    ObjectOf(MapExtend([f \in DOMAIN ManifestFields |-> ManifestFields[f][c[f]]],
                       ManifestBodies[c["body"]]))

\* The shapes of a manifest file around a manifest object: the object itself;
\* nested under pack, manifest or pack_manifest; nested under manifest beside
\* a pack that is a string; nested under pack beside an id and a version; or
\* no object at all.
ManifestShapes ==
    {"plain", "pack", "manifest", "pack_manifest", "manifest-beside-pack",
     "pack-beside-id", "string"}

ManifestValue(shape, object) ==
    CASE shape = "plain" -> object
      [] shape = "pack" -> JObj([pack |-> object])
      [] shape = "manifest" -> JObj([manifest |-> object])
      [] shape = "pack_manifest" -> JObj([pack_manifest |-> object])
      [] shape = "manifest-beside-pack" ->
            JObj([pack |-> JStr("telegram"), manifest |-> object])
      [] shape = "pack-beside-id" ->
            JObj([pack |-> object, id |-> JStr("outer-pack"),
                  version |-> JStr("9.9.9")])
      [] shape = "string" -> JStr("not-a-manifest")

CliError(kind) == [kind |-> kind]

\* serde_json::Map::remove for each of the keys
MapRemove(map, keys) == [k \in (DOMAIN map) \ keys |-> map[k]]

\* serde_json::Map::insert
MapInsert(map, key, value) ==
    [k \in (DOMAIN map) \cup {key} |-> IF k = key THEN value ELSE map[k]]

\* map.get(a).cloned().or_else(|| map.get(b).cloned())
GetEither(map, a, b) ==
    IF a \in DOMAIN map THEN Some(map[a])
    ELSE IF b \in DOMAIN map THEN Some(map[b]) ELSE None

resolve_pack_id(map) ==
    LET value == GetEither(map, "pack_id", "packId")
    IN  IF ~IsSome(value) THEN None
        ELSE IF Unwrap(value).t = "num"
        THEN LET index == Unwrap(value).v
             IN  IF /\ index >= 0
                    /\ "symbols" \in DOMAIN map
                    /\ map["symbols"].t = "obj"
                    /\ "pack_ids" \in DOMAIN map["symbols"].v
                    /\ map["symbols"].v["pack_ids"].t = "arr"
                    /\ index + 1 \in DOMAIN map["symbols"].v["pack_ids"].v
                    /\ map["symbols"].v["pack_ids"].v[index + 1].t = "str"
                 THEN Some(map["symbols"].v["pack_ids"].v[index + 1])
                 ELSE None
        ELSE value

normalize_manifest_object(map) ==
    LET withId ==
            IF "id" \in DOMAIN map
            THEN MapRemove(map, {"pack_id", "packId"})
            ELSE MapRemove(IF IsSome(resolve_pack_id(map))
                           THEN MapInsert(map, "id", Unwrap(resolve_pack_id(map)))
                           ELSE map,
                           {"pack_id", "packId"})
    IN  IF "version" \in DOMAIN withId
        THEN MapRemove(withId, {"pack_version", "packVersion"})
        ELSE MapRemove(IF IsSome(GetEither(withId, "pack_version", "packVersion"))
                       THEN MapInsert(withId, "version",
                                Unwrap(GetEither(withId, "pack_version", "packVersion")))
                       ELSE withId,
                       {"pack_version", "packVersion"})

normalize_manifest_value(value) ==
    IF value.t # "obj" THEN None
    ELSE LET nested ==
                 IF "pack" \in DOMAIN value.v THEN Some(value.v["pack"])
                 ELSE GetEither(value.v, "manifest", "pack_manifest")
         IN  IF IsSome(nested) /\ Unwrap(nested).t = "obj"
             THEN Some(JObj(normalize_manifest_object(Unwrap(nested).v)))
             ELSE Some(JObj(normalize_manifest_object(value.v)))

\* serde_json::from_value / from_str / ciborium::de::from_reader into PackManifest
ManifestFrom(value) ==
    IF IsPackManifest(value) THEN Ok(DePackManifest(value)) ELSE Err(CliError("Json"))

load_manifest_from_cbor_bytes(value) ==
    IF IsPackManifest(value) THEN Ok(DePackManifest(value))
    ELSE IF ~IsSome(normalize_manifest_value(value))
    THEN Err(CliError("ManifestDecode"))
    ELSE ManifestFrom(Unwrap(normalize_manifest_value(value)))

\* encoding is the extension of the file, value what its content decodes to.
load_manifest_from_file(encoding, value) ==
    IF encoding = "cbor" THEN load_manifest_from_cbor_bytes(value)
    ELSE ManifestFrom(value)

Encodings == {"json", "cbor"}

\* load_manifest(&pack_ctx.root) on a pack whose manifest file has the given
\* encoding.
LoadManifest(encoding) ==
    /\ l_value # None
    /\ l_manifest[encoding] = None
    /\ l_manifest' = [l_manifest EXCEPT ![encoding] =
                         Some(load_manifest_from_file(encoding, Unwrap(l_value)))]
    /\ l_normalized' =
          IF encoding = "cbor" /\ ~IsPackManifest(Unwrap(l_value))
          THEN Some(normalize_manifest_value(Unwrap(l_value)))
          ELSE l_normalized
    /\ UNCHANGED l_value
    /\ UNCHANGED <<cliFrame, discoverVars, conformanceVars>>

\* pack inspect: discover on the manifest load_manifest returned.
Inspect(encoding) ==
    /\ l_manifest[encoding] # None
    /\ Unwrap(l_manifest[encoding]).ok
    /\ p_descriptor = None
    /\ p_manifest' = Some(Unwrap(l_manifest[encoding]).val)
    /\ p_descriptor' = Some(discover(Unwrap(l_manifest[encoding]).val))
    /\ UNCHANGED <<cliFrame, loadVars, conformanceVars>>

\* The load_manifest driver at rest.
LoadIdle ==
    /\ l_value = None
    /\ l_normalized = None
    /\ l_manifest = [e \in Encodings |-> None]

----------------------------------------------------------------------------
(* main.rs: run_conformance and check_conformance *)

\* check_conformance that looks only at the redacted flag of the entries.
check_conformance_flag_only(result_) ==
    IF \E k \in DOMAIN result_.plan.secrets_patch.set :
          ~result_.plan.secrets_patch.set[k].redacted
    THEN <<"secrets_patch contains non-redacted values">>
    ELSE <<>>

check_conformance(result_) ==
    (IF to_string(result_.plan) # to_string(result_.plan)
     THEN <<"plan serialization not deterministic">> ELSE <<>>)
    \o (IF \E k \in DOMAIN result_.plan.secrets_patch.set :
              \/ ~result_.plan.secrets_patch.set[k].redacted
              \/ IsSome(result_.plan.secrets_patch.set[k].value)
        THEN <<"secrets_patch contains non-redacted values">>
        ELSE <<>>)

\* ConformancePackReport::passed, failed and failed_with
ReportPassed(label, version, result_) ==
    [pack |-> label, ok |-> TRUE, version |-> Some(version),
     errors |-> <<>>,
     plan_notes |-> Len(result_.plan.notes),
     secret_keys |-> KeysInOrder(result_.plan.secrets_patch.set)]

ReportFailed(label, error) ==
    [pack |-> label, ok |-> FALSE, version |-> None, errors |-> <<error>>,
     plan_notes |-> 0, secret_keys |-> <<>>]

ReportFailedWith(label, version, errors) ==
    [pack |-> label, ok |-> FALSE, version |-> Some(version), errors |-> errors,
     plan_notes |-> 0, secret_keys |-> <<>>]

\* The most packs in packs_dir.
MaxPacks == 2

\* What stops a pack before its dry run, if anything: resolve_pack_path,
\* load_manifest, discover, WasmtimeExecutor::new or the requirements flow.
PackFaults == {"none", "pack", "manifest", "discovery", "executor", "requirements"}

\* The secrets_patch.set of the plan a pack's dry run gives.
PackSecretSets ==
    {EmptyMap,
     [token |-> Redacted],
     [token |-> Redacted, secret |-> Redacted],
     [token |-> Plaintext("t")],
     [token |-> Redacted, secret |-> Plaintext("s")],
     [token |-> [redacted |-> TRUE, value |-> Some("t")]],
     [token |-> [redacted |-> FALSE, value |-> None]]}

\* The packs of a directory: the file stem, what stops the pack and, for a
\* pack that runs, the secrets its plan sets.
ConformancePacks ==
    {[set |-> EmptyMap, stem |-> st, fault |-> f] :
        f \in PackFaults \ {"none"}, st \in {"telegram", "slack"}}
    \cup {[set |-> m, stem |-> st, fault |-> "none"] :
            m \in PackSecretSets, st \in {"telegram", "slack"}}

\* The ProvisionResult of the dry run of a pack.
PackResult(pack_) ==
    [step_results |-> None,
     plan |-> [DefaultPlan EXCEPT !.secrets_patch.set = pack_.set],
     diagnostics |-> <<>>]

\* run_conformance up to the loop over the packs: create_dir_all and
\* read_dir either fail or give the packs, which the provider filters.
ConformanceStart(io_ok) ==
    /\ c_pc = "start"
    /\ IF io_ok
       THEN /\ c_entries' = SelectSeq(c_dir, LAMBDA pk :
                                c_provider = None \/ Some(pk.stem) = c_provider)
            /\ c_pc' = "packs"
            /\ c_exit' = c_exit
       ELSE /\ c_entries' = c_entries
            /\ c_pc' = "done"
            /\ c_exit' = Some("Io")
    /\ UNCHANGED <<c_dir, c_provider, c_next, c_reports>>
    /\ UNCHANGED <<cliFrame, discoverVars, loadVars>>

\* One iteration of the loop over the packs; artifacts_ok and log_ok say
\* whether capture_failure_artifacts and write_conformance_log can write.
ConformancePack(artifacts_ok, log_ok) ==
    /\ c_pc = "packs"
    /\ c_next <= Len(c_entries)
    /\ LET pack_  == c_entries[c_next]
           result_ == PackResult(pack_)
           checks == check_conformance(result_)
       IN  IF pack_.fault # "none"
           THEN /\ c_reports' = Append(c_reports,
                      ReportFailed(pack_.stem,
                          CASE pack_.fault = "pack" -> "pack error"
                            [] pack_.fault = "manifest" -> "manifest error"
                            [] pack_.fault = "discovery" -> "missing setup entry"
                            [] pack_.fault = "executor" -> "executor error"
                            [] pack_.fault = "requirements" -> "requirements failed"))
                /\ c_next' = c_next + 1
                /\ UNCHANGED <<c_pc, c_exit>>
           ELSE IF (checks # <<>> /\ ~artifacts_ok) \/ ~log_ok
           THEN /\ c_pc' = "done"
                /\ c_exit' = Some("Io")
                /\ UNCHANGED <<c_reports, c_next>>
           ELSE /\ c_reports' = Append(c_reports,
                      IF checks = <<>>
                      THEN ReportPassed(pack_.stem, "1.0.0", result_)
                      ELSE ReportFailedWith(pack_.stem, "1.0.0", checks))
                /\ c_next' = c_next + 1
                /\ UNCHANGED <<c_pc, c_exit>>
    /\ UNCHANGED <<c_dir, c_provider, c_entries>>
    /\ UNCHANGED <<cliFrame, discoverVars, loadVars>>

\* run_conformance after the loop: the report is written, which can fail,
\* and the exit follows the reports.
ConformanceFinish(io_ok) ==
    /\ c_pc = "packs"
    /\ c_next > Len(c_entries)
    /\ c_pc' = "done"
    /\ c_exit' = IF ~io_ok THEN Some("Io")
                 ELSE IF \E j \in DOMAIN c_reports : ~c_reports[j].ok
                 THEN Some("ConformanceFailed")
                 ELSE Some("Ok")
    /\ UNCHANGED <<c_dir, c_provider, c_entries, c_next, c_reports>>
    /\ UNCHANGED <<cliFrame, discoverVars, loadVars>>

\* The conformance command at rest.
ConformanceIdle ==
    /\ c_dir = <<>>
    /\ c_provider = None
    /\ c_pc = "off"
    /\ c_entries = <<>>
    /\ c_next = 1
    /\ c_reports = <<>>
    /\ c_exit = None

----------------------------------------------------------------------------
(* types.rs: building plans and serializing them *)

\* The most insertions made into one plan.
MaxInserts == 3

\* The insertions the driver makes: an entry of config_patch or of
\* secrets_patch.set (BTreeMap::insert), a note (Vec::push), or a patch
\* merged by merge_patch. The test plan_serialization_is_deterministic
\* inserts "zeta" and then "alpha".
PlanInserts ==
    <<[value |-> JStr("last"), op |-> "config", key |-> "zeta"],
      [value |-> JStr("first"), op |-> "config", key |-> "alpha"],
      [value |-> Plaintext("s3"), op |-> "secret", key |-> "token"],
      [value |-> "n1", op |-> "note"],
      [value |-> "n2", op |-> "note"],
      [value |-> PatchFooBazToken, op |-> "merge"]>>

\* The plan after one insertion.
PlanInsert(plan_, ins) ==
    CASE ins.op = "config" ->
            [plan_ EXCEPT !.config_patch = MapInsert(@, ins.key, ins.value)]
      [] ins.op = "secret" ->
            [plan_ EXCEPT !.secrets_patch.set = MapInsert(@, ins.key, ins.value)]
      [] ins.op = "note" ->
            [plan_ EXCEPT !.notes = Append(@, ins.value)]
      [] ins.op = "merge" -> merge_patch(plan_, ins.value)

\* The sequences of insertions of one plan, as indices of PlanInserts.
InsertSeqs == UNION {[1..len -> DOMAIN PlanInserts] : len \in 0..MaxInserts}

\* The orders the insertions of ops can be made in.
Reorderings(ops) ==
    {[j \in DOMAIN ops |-> ops[p[j]]] :
        p \in {q \in [DOMAIN ops -> DOMAIN ops] :
                  \A i, j \in DOMAIN ops : q[i] = q[j] => i = j}}

\* The next insertion of plan number side is made.
Insert(side) ==
    /\ s_done[side] < Len(s_ops[side])
    /\ s_texts[side] = <<>>
    /\ s_plans' = [s_plans EXCEPT ![side] =
                      PlanInsert(@, PlanInserts[s_ops[side][s_done[side] + 1]])]
    /\ s_done' = [s_done EXCEPT ![side] = @ + 1]
    /\ UNCHANGED <<s_ops, s_texts>>
    /\ UNCHANGED <<libFrame, fixtureVars>>

\* Plan number side, built, is serialized (at most twice).
Serialize(side) ==
    /\ s_done[side] = Len(s_ops[side])
    /\ Len(s_texts[side]) < 2
    /\ s_texts' = [s_texts EXCEPT ![side] = Append(@, to_string(s_plans[side]))]
    /\ UNCHANGED <<s_ops, s_done, s_plans>>
    /\ UNCHANGED <<libFrame, fixtureVars>>

SerializeIdle ==
    /\ s_ops = <<<<>>, <<>>>>
    /\ s_done = <<0, 0>>
    /\ s_plans = <<DefaultPlan, DefaultPlan>>
    /\ s_texts = <<<<>>, <<>>>>

----------------------------------------------------------------------------
(* engine.rs: plan_from_fixtures *)

\* FixtureError, by the name of its variant.
FixtureError(kind) == [kind |-> kind]

\* serde's Serialize of an Option: None is written as null.
NullOr(option, json) == IF IsSome(option) THEN json ELSE JNull

\* serde's Serialize of a StepOutput (types.rs, lines 155-161) and of its
\* ProvisionPlanPatch (lines 98-106): a member for each field, an absent
\* Option as null, a present field of the patch as the JSON of its typed
\* value, which is never null.
StepOutputToJson(out) ==
    [diagnostics |-> out.diagnostics,
     data        |-> out.data,
     plan_patch  |->
        NullOr(out.plan_patch,
               JObj([f \in DOMAIN EmptyPatch |->
                       NullOr(Unwrap(out.plan_patch)[f],
                              [v |-> Unwrap(Unwrap(out.plan_patch)[f]), t |-> "typed"])])),
     questions   |-> NullOr(out.questions, Unwrap(out.questions))]

\* serde's Deserialize of a StepOutput: a null member of an Option field is
\* None, anything else is Some of what it decodes to.
StepOutputFromJson(json) ==
    LET OptionOf(member, value) == IF member.t = "null" THEN None ELSE Some(value)
    IN  [diagnostics |-> json.diagnostics,
         data        |-> json.data,
         plan_patch  |->
            OptionOf(json.plan_patch,
                     [f \in DOMAIN EmptyPatch |->
                        OptionOf(json.plan_patch.v[f], json.plan_patch.v[f].v)]),
         questions   |-> OptionOf(json.questions, json.questions)]

\* load_step_output on the file a fixture path names: a file that cannot be
\* opened, one that is not the JSON of a StepOutput, or such JSON.
load_step_output(file) ==
    IF file.kind = "missing" THEN Err(FixtureError("Io"))
    ELSE IF file.kind = "garbled" THEN Err(FixtureError("Json"))
    ELSE Ok(StepOutputFromJson(file.content))

\* FixturePaths::iter: the present paths with their steps, in step order.
FixturePathsIter(fixtures) ==
    LET Entry(step, path) == IF IsSome(path)
                             THEN <<[step |-> step, path |-> Unwrap(path)]>>
                             ELSE <<>>
    IN  Entry("Collect", fixtures.collect) \o Entry("Validate", fixtures.validate)
        \o Entry("Apply", fixtures.apply) \o Entry("Summary", fixtures.summary)

\* A mutant of PlanFromEntries: a fixture that fails to load is skipped.
RECURSIVE PlanFromEntriesSkipping(_, _)
PlanFromEntriesSkipping(entries, acc) ==
    IF entries = <<>> THEN Ok(acc)
    ELSE LET loaded == load_step_output(Head(entries).path)
             out    == loaded.val
         IN  IF ~loaded.ok THEN PlanFromEntriesSkipping(Tail(entries), acc)
             ELSE PlanFromEntriesSkipping(Tail(entries),
                    [step_results |->
                        Some(Append(Unwrap(acc.step_results),
                                    [output |-> out, step |-> Head(entries).step])),
                     plan |-> IF IsSome(out.plan_patch)
                              THEN merge_patch(acc.plan, Unwrap(out.plan_patch))
                              ELSE acc.plan,
                     diagnostics |-> acc.diagnostics \o out.diagnostics])

\* plan_from_fixtures, lines 81-94: the loop over the entries that remain,
\* acc holding plan, diagnostics and step_results so far.
RECURSIVE PlanFromEntries(_, _)
PlanFromEntries(entries, acc) ==
    IF entries = <<>> THEN Ok(acc)
    ELSE LET loaded == load_step_output(Head(entries).path)
             out    == loaded.val
         IN  IF ~loaded.ok THEN Err(loaded.err)
             ELSE PlanFromEntries(Tail(entries),
                    [step_results |->
                        Some(Append(Unwrap(acc.step_results),
                                    [output |-> out, step |-> Head(entries).step])),
                     plan |-> IF IsSome(out.plan_patch)
                              THEN merge_patch(acc.plan, Unwrap(out.plan_patch))
                              ELSE acc.plan,
                     diagnostics |-> acc.diagnostics \o out.diagnostics])

\* plan_from_fixtures
plan_from_fixtures(fixtures) ==
    PlanFromEntries(FixturePathsIter(fixtures),
                    [step_results |-> Some(<<>>), plan |-> DefaultPlan,
                     diagnostics |-> <<>>])

\* No fixture paths.
NoFixtures == [collect |-> None, validate |-> None, apply |-> None, summary |-> None]

\* What a fixture path of a step can be: absent, or the path of a file that
\* is missing, garbled, or the JSON recorded from the step's output.
FixtureKinds == {"absent", "missing", "garbled", "json"}

\* The most fixtures of one call that are not the recorded JSON.
MaxOddFixtures == 1

FixtureChoices ==
    {kinds \in [DOMAIN StepOrder -> FixtureKinds] :
        Cardinality({j \in DOMAIN StepOrder : kinds[j] # "json"}) <= MaxOddFixtures}

\* The fixture path of a step whose run returned out.
FixturePath(kind, out) ==
    CASE kind = "absent" -> None
      [] kind = "json"   -> Some([kind |-> kind, content |-> StepOutputToJson(out)])
      [] OTHER           -> Some([kind |-> kind, content |-> JNull])

\* plan_from_fixtures is called on fixtures recorded from the run that has
\* returned.
PlanFromFixtures(kinds) ==
    /\ e_pc = "done"
    /\ f_result = None
    /\ f_fixtures' = [collect  |-> FixturePath(kinds[1], returned[1]),
                      validate |-> FixturePath(kinds[2], returned[2]),
                      apply    |-> FixturePath(kinds[3], returned[3]),
                      summary  |-> FixturePath(kinds[4], returned[4])]
    /\ f_result' = Some(plan_from_fixtures(f_fixtures'))
    /\ UNCHANGED <<libFrame, serializeVars>>

FixtureIdle ==
    /\ f_fixtures = NoFixtures
    /\ f_result = None

\* The discovery and command line drivers at rest.
CliIdle ==
    /\ p_manifest = None
    /\ p_descriptor = None
    /\ LoadIdle
    /\ ConformanceIdle
    /\ SerializeIdle
    /\ FixtureIdle

\* The resolve_component driver at rest.
ResolveIdle ==
    /\ r_files = {}
    /\ r_step = None
    /\ r_path = None

\* The step_output_from_json driver at rest.
DecodeIdle ==
    /\ d_value = None
    /\ d_output = None

EngineInit ==
    /\ e_pc = "idle"
    /\ mode = None
    /\ inputs = None
    /\ idx = 0
    /\ step_results = <<>>
    /\ plan = DefaultPlan
    /\ diagnostics = <<>>
    /\ ctx = NoCtx
    /\ output = DefaultStepOutput
    /\ calls = <<>>
    /\ ctxs = <<>>
    /\ returned = <<>>
    /\ plans = <<>>
    /\ result = None

\* An engine over NoopExecutor or over an arbitrary executor.
Init ==
    /\ EngineInit
    /\ ExecInit
    /\ executor \in {"noop", "stub"}
    /\ pack = PackEmpty
    /\ MergeIdle
    /\ ApplyIdle
    /\ InstallIdle /\ ResolveIdle /\ DecodeIdle
    /\ CliIdle

Next ==
    \/ \E m \in ProvisionMode, i \in InputsSet : Run(m, i)
    \/ CallExecutor
    \/ NoopRunStep
    \/ StubRunStep
    \/ RecordStep
    \/ Return

Spec == Init /\ [][Next]_vars

\* A run, then plan_from_fixtures on the fixtures recorded from it.
NextFixtures ==
    \/ Next
    \/ \E kinds \in FixtureChoices : PlanFromFixtures(kinds)

SpecFixtures == Init /\ [][NextFixtures]_vars

\* An engine over a WasmtimeExecutor on one of the packs.
InitExec ==
    /\ EngineInit
    /\ ExecInit
    /\ executor = "wasm"
    /\ pack \in Packs
    /\ MergeIdle
    /\ ApplyIdle
    /\ InstallIdle /\ ResolveIdle /\ DecodeIdle
    /\ CliIdle

NextExec ==
    \/ \E m \in {"DryRun", "Install"}, i \in InputsSet : Run(m, i)
    \/ CallExecutor
    \/ LoadComponent
    \/ SpawnWatchdog
    \/ \E i \in Invocations : WatchdogFires(i)
    \/ SetEpochDeadline
    \/ Instantiate
    \/ CallGuest
    \/ GuestReturns
    \/ GuestTraps
    \/ EpochInterrupt
    \/ ReadOutput
    \/ JoinAndDecode
    \/ RecordStep
    \/ Return

SpecExec == InitExec /\ [][NextExec]_vars

\* The engine and executor at rest, for the specifications that do not run them.
EngineIdle ==
    /\ EngineInit
    /\ ExecInit
    /\ executor = "noop"
    /\ pack = PackEmpty

\* merge_patch applied to drawn plans and patches.
InitMerge ==
    /\ EngineIdle
    /\ ApplyIdle
    /\ InstallIdle /\ ResolveIdle /\ DecodeIdle
    /\ CliIdle
    /\ m_pc = "start"
    /\ m_P \in PlanSet
    /\ m_A \in PatchSet
    /\ m_B \in PatchSet
    /\ m_acc = m_P

NextMerge ==
    \/ MergeFirst
    \/ MergeSecond

SpecMerge == InitMerge /\ [][NextMerge]_vars

\* An applier over empty in-memory stores, applied to drawn plans.
InitApply ==
    /\ EngineIdle
    /\ MergeIdle
    /\ InstallIdle /\ ResolveIdle /\ DecodeIdle
    /\ CliIdle
    /\ a_inputs \in InputsSet
    /\ config_store = EmptyMap
    /\ secrets_store = EmptyMap
    /\ install_store = <<>>
    /\ applies = 0
    /\ a_result = None
    /\ a_mode = None
    /\ effects = <<>>
    /\ report = None

NextApply ==
    \/ \E p \in ApplyPlans, mode_ \in {"DryRun", "Apply"} :
          \E tokens \in TokenAnswers(p, mode_) :
              Apply([step_results |-> None, plan |-> p, diagnostics |-> <<>>],
                    mode_, tokens)
    \/ \E i \in InputsSet : NewApplier(i)

SpecApply == InitApply /\ [][NextApply]_vars

\* Appliers for any of ApplierInputs over shared in-memory stores, applying
\* plans that write config and secrets.
InitNamespaces ==
    /\ EngineIdle
    /\ MergeIdle
    /\ InstallIdle /\ ResolveIdle /\ DecodeIdle
    /\ CliIdle
    /\ a_inputs \in ApplierInputs
    /\ config_store = EmptyMap
    /\ secrets_store = EmptyMap
    /\ install_store = <<>>
    /\ applies = 0
    /\ a_result = None
    /\ a_mode = None
    /\ effects = <<>>
    /\ report = None

NextNamespaces ==
    \/ \E p \in {PlanOf([foo |-> JStr("bar")], [b |-> Plaintext("v1")],
                        <<>>, <<>>, <<>>),
                 PlanOf([foo |-> JStr("baz")], [b |-> Plaintext("v2")],
                        <<"token">>, <<SubRegister>>, <<>>)},
          mode_ \in {"DryRun", "Apply"} :
          Apply([step_results |-> None, plan |-> p, diagnostics |-> <<>>],
                mode_, <<>>)
    \/ \E i \in ApplierInputs : NewApplier(i)

SpecNamespaces == InitNamespaces /\ [][NextNamespaces]_vars

\* An empty install store, in memory or on a file that does not exist yet.
InitInstall ==
    /\ EngineIdle
    /\ MergeIdle
    /\ ApplyIdle
    /\ ResolveIdle /\ DecodeIdle
    /\ CliIdle
    /\ i_kind \in {"memory", "file"}
    /\ i_records = <<>>
    /\ i_file = None
    /\ i_ops = 0
    /\ i_last = None
    /\ i_latest = [k \in InstallKeys |-> None]

NextInstall ==
    \/ \E r \in StoreRecords, persisted \in BOOLEAN : StorePut(r, persisted)
    \/ \E k \in InstallKeys, persisted \in BOOLEAN : StoreDelete(k, persisted)
    \/ \E k \in InstallKeys : StoreGet(k)

SpecInstall == InitInstall /\ [][NextInstall]_vars

\* resolve_component on a pack holding any of the files of PackPaths.
InitResolve ==
    /\ EngineIdle
    /\ MergeIdle
    /\ ApplyIdle
    /\ InstallIdle /\ DecodeIdle
    /\ CliIdle
    /\ r_step \in {Some(StepName(st)) : st \in ProvisionStep}
    /\ r_files \in SUBSET PackPaths(Unwrap(r_step))
    /\ r_path = None

NextResolve == Resolve

SpecResolve == InitResolve /\ [][NextResolve]_vars

\* step_output_from_json on the outputs of a guest: an array, or an object
\* with any choice of .ok and .questions and a .plan that is absent, null or
\* an object over any choice of its fields.
InitDecode ==
    /\ EngineIdle
    /\ MergeIdle
    /\ ApplyIdle
    /\ InstallIdle /\ ResolveIdle
    /\ CliIdle
    /\ \/ d_value = Some(JArr(<<>>))
       \/ \E ok \in 1..2, questions \in 1..3 :
             \/ d_value = Some(DecodeValue(ok, questions, None))
             \/ d_value = Some(DecodeValue(ok, questions, Some(JNull)))
             \/ \E c \in DecodePlanChoices :
                   d_value = Some(DecodeValue(ok, questions, Some(DecodePlan(c))))
    /\ d_output = None

NextDecode == Decode

SpecDecode == InitDecode /\ [][NextDecode]_vars

\* discover on any of PackManifests.
InitDiscover ==
    /\ EngineIdle
    /\ MergeIdle
    /\ ApplyIdle
    /\ InstallIdle /\ ResolveIdle /\ DecodeIdle
    /\ LoadIdle /\ ConformanceIdle
    /\ SerializeIdle /\ FixtureIdle
    /\ p_manifest \in {Some(mf) : mf \in PackManifests}
    /\ p_descriptor = None

NextDiscover == Discover

SpecDiscover == InitDiscover /\ [][NextDiscover]_vars

\* load_manifest on a manifest file of either encoding that decodes to any of
\* the manifest values, then pack inspect's discovery.
InitLoad ==
    /\ EngineIdle
    /\ MergeIdle
    /\ ApplyIdle
    /\ InstallIdle /\ ResolveIdle /\ DecodeIdle
    /\ ConformanceIdle
    /\ SerializeIdle /\ FixtureIdle
    /\ p_manifest = None
    /\ p_descriptor = None
    /\ \E shape \in ManifestShapes, c \in ManifestChoices :
          l_value = Some(ManifestValue(shape, ManifestObject(c)))
    /\ l_normalized = None
    /\ l_manifest = [e \in Encodings |-> None]

NextLoad ==
    \/ \E e \in Encodings : LoadManifest(e)
    \/ \E e \in Encodings : Inspect(e)

SpecLoad == InitLoad /\ [][NextLoad]_vars

\* The conformance command on a directory of up to MaxPacks packs.
InitConformance ==
    /\ EngineIdle
    /\ MergeIdle
    /\ ApplyIdle
    /\ InstallIdle /\ ResolveIdle /\ DecodeIdle
    /\ p_manifest = None
    /\ p_descriptor = None
    /\ LoadIdle
    /\ SerializeIdle /\ FixtureIdle
    /\ c_dir \in SeqUpTo(ConformancePacks, MaxPacks)
    /\ c_provider \in {None, Some("telegram")}
    /\ c_pc = "start"
    /\ c_entries = <<>>
    /\ c_next = 1
    /\ c_reports = <<>>
    /\ c_exit = None

NextConformance ==
    \/ \E io_ok \in BOOLEAN : ConformanceStart(io_ok)
    \/ \E artifacts_ok, log_ok \in BOOLEAN : ConformancePack(artifacts_ok, log_ok)
    \/ \E io_ok \in BOOLEAN : ConformanceFinish(io_ok)

SpecConformance == InitConformance /\ [][NextConformance]_vars

\* Two plans built by making the same insertions in any two orders, then
\* serialized.
InitSerialize ==
    /\ EngineIdle
    /\ MergeIdle
    /\ ApplyIdle
    /\ InstallIdle /\ ResolveIdle /\ DecodeIdle
    /\ p_manifest = None
    /\ p_descriptor = None
    /\ LoadIdle /\ ConformanceIdle
    /\ FixtureIdle
    /\ \E ops \in InsertSeqs : \E reordered \in Reorderings(ops) :
          s_ops = <<ops, reordered>>
    /\ s_done = <<0, 0>>
    /\ s_plans = <<DefaultPlan, DefaultPlan>>
    /\ s_texts = <<<<>>, <<>>>>

NextSerialize ==
    \/ \E side \in 1..2 : Insert(side)
    \/ \E side \in 1..2 : Serialize(side)

SpecSerialize == InitSerialize /\ [][NextSerialize]_vars

----------------------------------------------------------------------------
(* The claims. *)

HasError(out) == out.data.t = "obj" /\ "error" \in DOMAIN out.data.v

\* The StepResults of the first k steps, holding the outputs returned.
ResultsUpTo(k) == [j \in 1..k |-> [output |-> returned[j], step |-> StepOrder[j]]]

\* C1: run invokes the executor exactly four times, in the order Collect,
\* Validate, Apply, Summary, whatever the mode, the inputs and the outputs
\* of the steps (error outputs included), and returns the four StepResults
\* of these steps in that order.
C1_FourStepsInOrder ==
    /\ Len(calls) <= Len(StepOrder)
    /\ calls = SubSeq(StepOrder, 1, Len(calls))
    /\ e_pc = "done" =>
          /\ calls = StepOrder
          /\ IsSome(Unwrap(result).step_results)
          /\ Len(Unwrap(Unwrap(result).step_results)) = 4
          /\ \A j \in 1..4 : Unwrap(Unwrap(result).step_results)[j].step = StepOrder[j]

\* A run has returned whose first step gave an error output.
C1_Witness ==
    /\ e_pc = "done"
    /\ executor = "stub"
    /\ mode = "Delete"
    /\ HasError(returned[1])
    /\ ~HasError(returned[4])

\* C7: the context of the k-th step holds that step, the run's mode, the
\* run's inputs and exactly the StepResults of the steps before it, each
\* with the output that step returned; the engine's recorded results are
\* the outputs the executor returned.
C7_ContextSnapshot ==
    /\ Len(ctxs) = Len(calls)
    /\ \A k \in DOMAIN ctxs :
          /\ ctxs[k].step = StepOrder[k]
          /\ ctxs[k].mode = mode
          /\ ctxs[k].inputs = inputs
          /\ ctxs[k].prior_results = ResultsUpTo(k - 1)
    /\ e_pc # "idle" => step_results = ResultsUpTo(idx)

\* The executor is in the fourth step, after three steps of differing outputs.
C7_Witness ==
    /\ e_pc = "call"
    /\ Len(ctxs) = 4
    /\ returned[1] # returned[2]
    /\ returned[2] # returned[3]
    /\ Len(ctx.prior_results) = 3

\* The plan patches of outs merged in order into the empty plan.
RECURSIVE MergedPlan(_)
MergedPlan(outs) ==
    IF outs = <<>> THEN DefaultPlan
    ELSE LET before == MergedPlan(SubSeq(outs, 1, Len(outs) - 1))
             last   == outs[Len(outs)]
         IN  IF IsSome(last.plan_patch)
             THEN merge_patch(before, Unwrap(last.plan_patch))
             ELSE before

\* The diagnostics of outs, concatenated in order.
RECURSIVE AllDiagnostics(_)
AllDiagnostics(outs) ==
    IF outs = <<>> THEN <<>>
    ELSE Head(outs).diagnostics \o AllDiagnostics(Tail(outs))

\* C8: the plan run returns is the merge, into an empty plan and in step
\* order, of the plan patches of the step outputs that have one, and the
\* diagnostics it returns are the steps' diagnostics concatenated in order.
C8_PlanIsMergeOfPatches ==
    e_pc = "done" =>
        /\ Unwrap(result).plan = MergedPlan(returned)
        /\ Unwrap(result).diagnostics = AllDiagnostics(returned)

\* A run has returned in which a step without a patch carried diagnostics
\* and later steps carried patches.
C8_Witness ==
    /\ e_pc = "done"
    /\ ~IsSome(returned[1].plan_patch) /\ returned[1].diagnostics # <<>>
    /\ IsSome(returned[2].plan_patch)
    /\ IsSome(returned[3].plan_patch)
    /\ returned[2] # returned[3]
    /\ ~IsSome(returned[4].plan_patch)

\* C2: run_step returns run_named_step's output when that succeeds, and on
\* every error the output {error, step} with no diagnostics, no plan patch
\* and no questions; the plan accumulator after a failed step is the one
\* before it.
C2_ErrorEnvelope ==
    /\ Len(returned) = Len(named_results)
    /\ \A k \in DOMAIN named_results :
          IF named_results[k].ok
          THEN returned[k] = named_results[k].val
          ELSE /\ returned[k].data =
                     JObj([error |-> JStr(ErrToString(named_results[k].err)),
                           step |-> JStr(StepName(StepOrder[k]))])
               /\ returned[k].diagnostics = <<>>
               /\ returned[k].plan_patch = None
               /\ returned[k].questions = None
    /\ \A k \in DOMAIN plans :
          ~named_results[k].ok =>
              plans[k] = IF k = 1 THEN DefaultPlan ELSE plans[k - 1]

\* A step has failed in its output decoding after a step that contributed
\* a plan patch.
C2_Witness ==
    /\ e_pc = "loop"
    /\ idx = 3
    /\ named_results[2].ok /\ IsSome(returned[2].plan_patch)
    /\ ~named_results[3].ok /\ named_results[3].err.kind = "Trap"
    /\ plan # DefaultPlan

\* C10: once the watchdog of a step has bumped the epoch, a guest that never
\* returns is interrupted (the epoch has reached the deadline of its store),
\* so that run_step returns; no guest memory is read after a trap, the
\* output of a trapped step is the error envelope without a plan patch, and
\* the run completes with four step results.
C10_SpinningGuestTraps ==
    /\ (x_pc = "guest" /\ guest.kind = "spin" /\ watchdog[n] = "done")
           => epoch[n] >= deadline[n]
    /\ \A k \in DOMAIN returned :
          trapped[k] => /\ mem_reads[k] = 0
                        /\ HasError(returned[k])
                        /\ returned[k].plan_patch = None
    /\ e_pc = "done" => Len(Unwrap(Unwrap(result).step_results)) = 4

\* C3: an apply in DryRun mode makes no call on a store or on the handler
\* and leaves the stores as they were, while its report echoes the plan's
\* oauth_ops and carries the install record of the applier's inputs.
C3_DryRunTouchesNoStore ==
    [][(applies' = applies + 1 /\ a_mode' = "DryRun") =>
          /\ effects' = <<>>
          /\ config_store' = config_store
          /\ secrets_store' = secrets_store
          /\ install_store' = install_store
          /\ report'.oauth_ops = a_result'.plan.oauth_ops
          /\ report'.install_record.tenant = a_inputs.tenant
          /\ report'.install_record.provider_id = a_inputs.provider_id
          /\ report'.install_record.install_id = a_inputs.install_id]_vars

\* A DryRun apply of a plan with OAuth ops, secrets and config has returned
\* on stores an earlier apply wrote to, and its record is not the stored one.
C3_Witness ==
    /\ applies = 2
    /\ a_mode = "DryRun"
    /\ a_result.plan.oauth_ops # <<>>
    /\ a_result.plan.secrets_patch.set # EmptyMap
    /\ a_result.plan.config_patch # EmptyMap
    /\ config_store # EmptyMap
    /\ install_store # <<>>
    /\ InstallGet(install_store, a_inputs.tenant, a_inputs.provider_id,
                  a_inputs.install_id) # Some(report.install_record)

\* The set_secret calls of the last apply made for secrets_patch.set.
SecretsPatchWrites ==
    SelectSeq(effects, LAMBDA c : c.call = "set_secret" /\ c.site = "secrets_patch")

\* C4: set_secret is called for an entry of secrets_patch.set only if the
\* entry is not redacted and has a value, and then with its key and value
\* under the secrets namespace; a redacted entry is never written, with or
\* without a value, and an entry without a value is skipped.
C4_OnlyPlaintextSecretsWritten ==
    a_result # None =>
        LET set == a_result.plan.secrets_patch.set
            sns == SecretsNamespace(provision_namespace(
                        a_inputs.tenant, a_inputs.provider_id, a_inputs.install_id))
        IN  /\ \A j \in DOMAIN SecretsPatchWrites :
                  LET c == SecretsPatchWrites[j]
                  IN  /\ c.key \in DOMAIN set
                      /\ ~set[c.key].redacted
                      /\ set[c.key].value = Some(c.value)
                      /\ c.ns = sns
            /\ \A k \in DOMAIN set :
                  (set[k].redacted \/ set[k].value = None) =>
                      \A j \in DOMAIN SecretsPatchWrites : SecretsPatchWrites[j].key # k

\* An Apply of a plan with a redacted entry that carries a value, an entry
\* without a value and a plaintext entry has written the plaintext one.
C4_Witness ==
    /\ applies > 0
    /\ a_mode = "Apply"
    /\ "secret" \in DOMAIN a_result.plan.secrets_patch.set
    /\ a_result.plan.secrets_patch.set["secret"] = [redacted |-> TRUE, value |-> Some("leak")]
    /\ "a" \in DOMAIN a_result.plan.secrets_patch.set
    /\ Len(SecretsPatchWrites) = 1
    /\ SecretsPatchWrites[1].key = "b"

\* The place of a call in the order the spec lists apply's effects in.
EffectRank(c) ==
    CASE c.call = "apply_patch"   -> 1
      [] c.call = "set_secret"    -> IF c.site = "secrets_patch" THEN 2 ELSE 4
      [] c.call = "delete_secret" -> 3
      [] c.call = "start"         -> 4
      [] c.call = "put"           -> 5

\* C9: the calls of an apply are made in the order config patch, secret
\* sets, secret deletes, OAuth starts with their token writes, and the
\* install record's put last.
C9_InstallPutLast ==
    \A j, k \in DOMAIN effects :
        EffectRank(effects[j]) < EffectRank(effects[k]) => j < k

\* p is map r overwritten by map q.
Overwrites(p, q, r) ==
    /\ DOMAIN r = (DOMAIN p) \cup (DOMAIN q)
    /\ \A k \in DOMAIN q : r[k] = q[k]
    /\ \A k \in (DOMAIN p) \ (DOMAIN q) : r[k] = p[k]

\* C5: merge_patch overwrites the maps of the plan with the entries of the
\* patch, appends the lists of the patch to the lists of the plan, and
\* leaves a field whose counterpart in the patch is absent as it was.
C5_MergePatchRules ==
    m_pc = "A" =>
        /\ IF IsSome(m_A.config_patch)
           THEN Overwrites(m_P.config_patch, Unwrap(m_A.config_patch), m_acc.config_patch)
           ELSE m_acc.config_patch = m_P.config_patch
        /\ IF IsSome(m_A.secrets_patch)
           THEN /\ Overwrites(m_P.secrets_patch.set, Unwrap(m_A.secrets_patch).set,
                              m_acc.secrets_patch.set)
                /\ m_acc.secrets_patch.delete =
                       m_P.secrets_patch.delete \o Unwrap(m_A.secrets_patch).delete
           ELSE m_acc.secrets_patch = m_P.secrets_patch
        /\ \A f \in {"webhook_ops", "subscription_ops", "oauth_ops", "notes"} :
              IF IsSome(m_A[f])
              THEN m_acc[f] = m_P[f] \o Unwrap(m_A[f])
              ELSE m_acc[f] = m_P[f]

\* A patch that shares a config key with the plan and repeats one of its
\* notes has been merged.
C5_Witness ==
    /\ m_pc = "A"
    /\ m_P = PlanFull
    /\ m_A.config_patch = Some([foo |-> JStr("baz")])
    /\ m_A.notes = Some(<<"n1">>)
    /\ m_acc.config_patch = [foo |-> JStr("baz"), zeta |-> JNull]
    /\ m_acc.notes = <<"n1", "n1">>
    /\ m_acc.oauth_ops = <<OAuthA>>

\* The spec's merge_patches: two patches combined by the rules of
\* merge_patch, b winning on maps and following a on lists.
merge_patches(a, b) ==
    LET Both(f) == IsSome(a[f]) /\ IsSome(b[f])
        Either(f, both) == IF Both(f) THEN Some(both)
                           ELSE IF IsSome(b[f]) THEN b[f] ELSE a[f]
        List(f) == Either(f, Unwrap(a[f]) \o Unwrap(b[f]))
    IN  [config_patch |->
            Either("config_patch",
                   MapExtend(Unwrap(a.config_patch), Unwrap(b.config_patch))),
         secrets_patch |->
            Either("secrets_patch",
                   [set |-> MapExtend(Unwrap(a.secrets_patch).set,
                                      Unwrap(b.secrets_patch).set),
                    delete |-> Unwrap(a.secrets_patch).delete
                                  \o Unwrap(b.secrets_patch).delete]),
         webhook_ops |-> List("webhook_ops"),
         subscription_ops |-> List("subscription_ops"),
         oauth_ops |-> List("oauth_ops"),
         notes |-> List("notes")]

\* Maps p and q give some shared key different values.
MapsClash(p, q) == \E k \in (DOMAIN p) \cap (DOMAIN q) : p[k] # q[k]

\* Patches a and b share a map key or both contribute to a list.
Interfere(a, b) ==
    \/ /\ IsSome(a.config_patch) /\ IsSome(b.config_patch)
       /\ MapsClash(Unwrap(a.config_patch), Unwrap(b.config_patch))
    \/ /\ IsSome(a.secrets_patch) /\ IsSome(b.secrets_patch)
       /\ \/ MapsClash(Unwrap(a.secrets_patch).set, Unwrap(b.secrets_patch).set)
          \/ /\ Unwrap(a.secrets_patch).delete # <<>>
             /\ Unwrap(b.secrets_patch).delete # <<>>
    \/ \E f \in {"webhook_ops", "subscription_ops", "oauth_ops", "notes"} :
          /\ IsSome(a[f]) /\ IsSome(b[f])
          /\ Unwrap(a[f]) # <<>> /\ Unwrap(b[f]) # <<>>

\* C6: merging a and then b into a plan is merging merge_patches(a, b) into
\* it, and merging them in the other order gives another plan only when
\* they share a map key or both contribute to a list.
C6_MergeAssociative ==
    m_pc = "AB" =>
        /\ m_acc = merge_patch(m_P, merge_patches(m_A, m_B))
        /\ merge_patch(merge_patch(m_P, m_B), m_A) # m_acc => Interfere(m_A, m_B)

\* Two patches that share a config key have been merged, and the other
\* order gives another plan.
C6_Witness ==
    /\ m_pc = "AB"
    /\ m_A.config_patch = Some([foo |-> JStr("bar")])
    /\ m_B.config_patch = Some([foo |-> JStr("baz")])
    /\ IsSome(m_A.notes) /\ IsSome(m_B.notes)
    /\ m_acc.config_patch["foo"] = JStr("baz")
    /\ merge_patch(merge_patch(m_P, m_B), m_A) # m_acc

\* C11: when a step invocation has returned, by its success return or by
\* any of its error returns, the watchdog thread spawned for it has ended
\* and has been joined.
C11_WatchdogJoined ==
    \A k \in DOMAIN named_results :
        watchdog[k] # "none" => (watchdog[k] = "done" /\ joined[k])

\* The step invocation k returned on an epoch interrupt.
Interrupted(k) ==
    /\ ~named_results[k].ok
    /\ named_results[k].err = ExecutorError("Trap", "wasm trap: interrupt")

\* C12: the epoch of a step's engine is bumped by that step's watchdog
\* alone, once: an engine whose watchdog has not fired is at epoch 0
\* whatever the watchdogs of other steps do, and a guest is interrupted
\* only after the watchdog of its own step has fired.
C12_StepIsolation ==
    /\ \A i \in Invocations : epoch[i] = IF watchdog[i] = "done" THEN 1 ELSE 0
    /\ \A k \in DOMAIN named_results : Interrupted(k) => watchdog[k] = "done"
    /\ (x_pc = "guest" /\ epoch[n] >= deadline[n]) => watchdog[n] = "done"

\* The guest of the second step runs undisturbed although the watchdog of
\* the first step, which returned without joining it, has fired since.
C12_Witness ==
    /\ x_pc = "guest"
    /\ n = 2
    /\ ~named_results[1].ok
    /\ watchdog[1] = "done" /\ ~joined[1]
    /\ watchdog[2] = "sleeping"
    /\ epoch[2] < deadline[2]

\* The namespaces of the applier's inputs.
ConfigNs == provision_namespace(a_inputs.tenant, a_inputs.provider_id, a_inputs.install_id)

SecretsNs == SecretsNamespace(ConfigNs)

\* The place of key k in the ascending order of keys.
KeyRank(k) == CHOOSE j \in DOMAIN SortedKeys : SortedKeys[j] = k

\* keys lists exactly the keys of map m, each once, in ascending order.
ListsKeysOf(keys, m) ==
    /\ {keys[j] : j \in DOMAIN keys} = DOMAIN m
    /\ \A j, k \in DOMAIN keys : j < k => KeyRank(keys[j]) < KeyRank(keys[k])

\* C13: after an apply in Apply mode, reading the config namespace from the
\* in-memory config store gives every key of the plan's config_patch the
\* value the plan gives it, and the report's config_changes lists exactly
\* the keys of config_patch in ascending order.
C13_ConfigStoreHoldsPatch ==
    (a_result # None /\ a_mode = "Apply") =>
        LET patch == a_result.plan.config_patch
            read  == NamespaceOf(config_store, ConfigNs)
        IN  /\ \A k \in DOMAIN patch : k \in DOMAIN read /\ read[k] = patch[k]
            /\ ListsKeysOf(report.config_changes, patch)

\* A patch of two keys has been applied over a namespace an earlier apply
\* gave another value for one of them and has left a key of its own in.
C13_Witness ==
    /\ applies = 3
    /\ a_mode = "Apply"
    /\ a_result.plan.config_patch = [foo |-> JStr("bar")]
    /\ report.config_changes = <<"foo">>
    /\ NamespaceOf(config_store, ConfigNs) = [foo |-> JStr("bar"), zeta |-> JNull]

\* C14: after an apply in Apply mode, getting the install of the applier's
\* inputs from the install store gives the report's install_record, whose
\* namespaces are the derived ones and whose subscriptions are the report's
\* subscription_state, whatever was applied before for this or another
\* install.
C14_InstallRecordStored ==
    (a_result # None /\ a_mode = "Apply") =>
        /\ InstallGet(install_store, a_inputs.tenant, a_inputs.provider_id,
                      a_inputs.install_id) = Some(report.install_record)
        /\ report.install_record.config_namespace = ConfigNs
        /\ report.install_record.secrets_namespace = SecretsNs
        /\ report.install_record.subscriptions = report.subscription_state

\* An install is applied again, with other subscriptions, after another
\* install was stored behind it.
C14_Witness ==
    /\ applies = 3
    /\ a_mode = "Apply"
    /\ Len(install_store) = 2
    /\ SameInstall(install_store[1], a_inputs.tenant, a_inputs.provider_id,
                   a_inputs.install_id)
    /\ report.subscription_state # <<>>
    /\ install_store[2].subscriptions = <<>>

\* The places of records that hold the install key.
Installed(records, key) == {j \in DOMAIN records : KeyOf(records[j]) = key}

\* C15: on an install store that started empty, in memory or on a file,
\* there is at most one record per install; get gives the record last put
\* for the install and None once it is deleted; a put of a stored install
\* replaces its record in place and keeps the count, a put of a new one
\* adds one record; delete returns true exactly when the install was stored
\* and removes that record alone.
C15_OneRecordPerInstall ==
    /\ \A k \in InstallKeys : Cardinality(Installed(i_records, k)) <= 1
    /\ \A k \in InstallKeys :
          InstallGet(i_records, k.tenant, k.provider_id, k.install_id) = i_latest[k]
    /\ i_last # None =>
          LET before == i_last.before
              was    == Installed(before, i_last.key) # {}
              Others(records) ==
                  {records[j] : j \in DOMAIN records \ Installed(records, i_last.key)}
          IN  /\ Others(i_records) = Others(before)
              /\ i_last.op = "put" =>
                    /\ Len(i_records) = Len(before) + (IF was THEN 0 ELSE 1)
                    /\ \A j \in DOMAIN before : KeyOf(i_records[j]) = KeyOf(before[j])
              /\ i_last.op = "delete" =>
                    /\ i_last.ret = was
                    /\ Len(i_records) = Len(before) - (IF was THEN 1 ELSE 0)
              /\ i_last.op = "get" =>
                    /\ i_last.ret = i_latest[i_last.key]
                    /\ i_records = before

\* On a file-backed store holding two installs, the record of the first
\* has been replaced by a put.
C15_Witness ==
    /\ i_kind = "file"
    /\ i_ops = 4
    /\ i_last # None
    /\ i_last.op = "put"
    /\ Len(i_last.before) = 2
    /\ Len(i_records) = 2
    /\ i_records[1] # i_last.before[1]
    /\ i_records[2] = i_last.before[2]

\* The text of a tenant field in a namespace.
FieldText(o) == IF o = None THEN <<"unknown">> ELSE o[1]

\* provision:{env}:{tenant}:{team}:{provider_id}:{install_id} for inputs inp.
NamespaceText(inp) ==
    <<"provision", ":">> \o FieldText(inp.tenant.environment)
        \o <<":">> \o FieldText(inp.tenant.tenant)
        \o <<":">> \o FieldText(inp.tenant.team)
        \o <<":">> \o inp.provider_id \o <<":">> \o inp.install_id

\* C16: apply writes config under provision:{env}:{tenant}:{team}:
\* {provider_id}:{install_id}, an absent tenant field reading unknown, and
\* sets and deletes secrets under that namespace followed by :secrets, and
\* nowhere else; the install record names these two namespaces.
C16_Namespaces ==
    a_result # None =>
        /\ \A j \in DOMAIN effects :
              /\ effects[j].call = "apply_patch" =>
                    effects[j].ns = NamespaceText(a_inputs)
              /\ effects[j].call \in {"set_secret", "delete_secret"} =>
                    effects[j].ns = NamespaceText(a_inputs) \o <<":", "secrets">>
        /\ report.install_record.config_namespace = NamespaceText(a_inputs)
        /\ report.install_record.secrets_namespace =
              NamespaceText(a_inputs) \o <<":", "secrets">>
        /\ (a_inputs.tenant = TenantProd) =>
              report.install_record.config_namespace =
                 <<"provision", ":", "prod", ":", "tenant-a", ":", "team-a", ":",
                   "p", ":", "i">>
        /\ DOMAIN config_store \subseteq {NamespaceText(i) : i \in InputsSet}
        /\ DOMAIN secrets_store \subseteq
              {NamespaceText(i) \o <<":", "secrets">> : i \in InputsSet}

\* An applier for a tenant without environment, tenant or team has written
\* config, set a secret and deleted one.
C16_Witness ==
    /\ a_result # None
    /\ a_mode = "Apply"
    /\ a_inputs.tenant = TenantDefault
    /\ \E j \in DOMAIN effects :
          effects[j].call = "apply_patch" /\ effects[j].patch # EmptyMap
    /\ \E j \in DOMAIN effects : effects[j].call = "set_secret"
    /\ \E j \in DOMAIN effects : effects[j].call = "delete_secret"
    /\ DOMAIN config_store =
          {<<"provision", ":", "unknown", ":", "unknown", ":", "unknown", ":",
             "p", ":", "i">>}

\* The secret values a plan carries.
SecretValuesOf(plan_) ==
    {Unwrap(plan_.secrets_patch.set[k].value) :
        k \in {x \in DOMAIN plan_.secrets_patch.set :
                  IsSome(plan_.secrets_patch.set[x].value)}}

\* The elements of the sequence q.
Range(q) == {q[j] : j \in DOMAIN q}

\* C17: the report of a dry run lists the keys of the plan's config_patch,
\* every key of secrets_patch.set, redacted or not, in key order, and
\* secrets_patch.delete as it is, in its order and with its duplicates;
\* it holds keys only, no secret value.
C17_DryRunReportsKeys ==
    (a_result # None /\ a_mode = "DryRun") =>
        /\ ListsKeysOf(report.config_changes, a_result.plan.config_patch)
        /\ ListsKeysOf(report.secret_set_keys, a_result.plan.secrets_patch.set)
        /\ report.secret_deleted_keys = a_result.plan.secrets_patch.delete
        /\ DOMAIN report = {"mode", "config_changes", "secret_set_keys",
                            "secret_deleted_keys", "oauth_ops",
                            "subscription_state", "install_record"}
        /\ (Range(report.config_changes) \cup Range(report.secret_set_keys))
              \cap SecretValuesOf(a_result.plan) = {}

\* A dry run of a plan with redacted, value-less and plaintext secrets and
\* a repeated delete has reported.
C17_Witness ==
    /\ a_result # None
    /\ a_mode = "DryRun"
    /\ report.config_changes = <<"foo", "zeta">>
    /\ report.secret_set_keys = <<"a", "b", "secret", "token">>
    /\ report.secret_deleted_keys = <<"secret", "old", "old">>
    /\ "leak" \in SecretValuesOf(a_result.plan)

\* The search order of the spec: the candidate name first, then the
\* extension, then the root.
SpecSearchOrder(step_name) ==
    [k \in 1..12 |->
        Path(Roots[((k - 1) % 3) + 1],
             Candidates(step_name)[((k - 1) \div 6) + 1],
             Exts[(((k - 1) \div 3) % 2) + 1])]

\* C18: resolve_component returns the first existing file of the spec's
\* search order (the step's own candidate before the generic one, for a
\* candidate .wasm before .wat, the roots in the order components, wasm,
\* pack root), and ComponentNotFound(S) exactly when no candidate file
\* exists.
C18_FirstInSearchOrder ==
    r_path # None =>
        LET order == SpecSearchOrder(Unwrap(r_step))
            hits  == {k \in 1..12 : order[k] \in r_files}
        IN  IF hits = {}
            THEN r_path = Err(ExecutorError("ComponentNotFound", Unwrap(r_step)))
            ELSE r_path = Ok(order[CHOOSE k \in hits : \A j \in hits : k <= j])

\* C19: when the guest has returned, a length that is negative or above
\* max_output_bytes (64 KiB) makes run_named_step fail with OutputTooLarge
\* with nothing read from the guest's memory and nothing parsed, and the
\* step's output carries no plan patch; any other length, max_output_bytes
\* itself included, passes the check and the output is read.
C19_OutputTooLarge ==
    [][(x_pc = "decode" /\ x_pc' # "decode") =>
          IF guest.len < 0 \/ guest.len > 64 * 1024
          THEN /\ Len(named_results') = Len(named_results) + 1
               /\ ~named_results'[n].ok
               /\ named_results'[n].err.kind = "OutputTooLarge"
               /\ mem_reads' = mem_reads
               /\ output_json' = output_json
               /\ returned'[n].plan_patch = None
          ELSE /\ mem_reads'[n] = mem_reads[n] + 1
               /\ named_results' # named_results =>
                     named_results'[n].err.kind # "OutputTooLarge"]_vars

\* After a step whose guest returned a negative length failed with
\* OutputTooLarge unread, the output of a guest that returned exactly
\* max_output_bytes has been read.
C19_Witness ==
    /\ x_pc = "join"
    /\ n = 2
    /\ guest.len = 64 * 1024
    /\ mem_reads[2] = 1
    /\ named_results[1] = Err(ExecutorError("OutputTooLarge", [n |-> -1, w |-> TRUE]))
    /\ mem_reads[1] = 0

\* The elements of a JSON array that are strings, in order.
StringElements(arr) ==
    LET sel == SelectSeq(arr, LAMBDA e : e.t = "str")
    IN  [j \in DOMAIN sel |-> sel[j].v]

HasField(value, key) == value.t = "obj" /\ key \in DOMAIN value.v

\* A secrets_patch that lacks a required field of SecretsPatch or of one of
\* its RedactedValues.
MalformedSecrets(sp) ==
    \/ ~HasField(sp, "set")
    \/ ~HasField(sp, "delete")
    \/ \E k \in DOMAIN sp.v["set"].v : ~HasField(sp.v["set"].v[k], "redacted")

\* An array with an element whose "op" is missing, is not a string or is not
\* among the given variants.
MalformedOps(ops, variants) ==
    /\ ops.t = "arr"
    /\ \E j \in DOMAIN ops.v :
          \/ ~HasField(ops.v[j], "op")
          \/ ops.v[j].v["op"].t # "str"
          \/ ops.v[j].v["op"].v \notin variants

\* A .plan whose secrets_patch or one of whose op arrays does not deserialize.
Undecodable(p) ==
    \/ HasField(p, "secrets_patch") /\ MalformedSecrets(p.v["secrets_patch"])
    \/ HasField(p, "webhook_ops")
          /\ MalformedOps(p.v["webhook_ops"], {"register", "sync"})
    \/ HasField(p, "subscription_ops")
          /\ MalformedOps(p.v["subscription_ops"], {"register", "sync"})
    \/ HasField(p, "oauth_ops") /\ MalformedOps(p.v["oauth_ops"], {"start"})

\* C20: decoding a guest's output JSON fails with OutputJson exactly when
\* .plan carries a secrets_patch or an op array that does not deserialize;
\* otherwise it gives a StepOutput whose data is the whole value, whose
\* questions is .questions if present, whose diagnostics are empty and whose
\* plan_patch is present exactly when .plan is: its config_patch is the
\* object under .plan.config_patch (absent for any other value), its notes
\* are the string elements of the array .plan.notes in order, and its
\* secrets_patch is present when .plan.secrets_patch is.
C20_DecodedStepOutput ==
    d_output # None =>
        LET value == Unwrap(d_value)
            res   == Unwrap(d_output)
        IN  IF HasField(value, "plan") /\ Undecodable(value.v["plan"])
            THEN /\ ~res.ok
                 /\ res.err.kind = "OutputJson"
            ELSE /\ res.ok
                 /\ res.val.data = value
                 /\ res.val.diagnostics = <<>>
                 /\ res.val.questions =
                        (IF HasField(value, "questions")
                         THEN Some(value.v["questions"]) ELSE None)
                 /\ IsSome(res.val.plan_patch) <=> HasField(value, "plan")
                 /\ HasField(value, "plan") =>
                        LET p  == value.v["plan"]
                            pp == Unwrap(res.val.plan_patch)
                        IN  /\ pp.config_patch =
                                  (IF HasField(p, "config_patch")
                                      /\ p.v["config_patch"].t = "obj"
                                   THEN Some(p.v["config_patch"].v) ELSE None)
                            /\ pp.notes =
                                  (IF HasField(p, "notes") /\ p.v["notes"].t = "arr"
                                   THEN Some(StringElements(p.v["notes"].v))
                                   ELSE None)
                            /\ IsSome(pp.secrets_patch) <=> HasField(p, "secrets_patch")
                            /\ IsSome(pp.webhook_ops) <=>
                                  (HasField(p, "webhook_ops")
                                   /\ p.v["webhook_ops"].t = "arr")

\* A decoded output with questions and a plan whose config_patch was not an
\* object and whose notes held a number between two strings.
C20_Witness ==
    /\ d_output # None
    /\ Unwrap(d_output).ok
    /\ HasField(Unwrap(d_value), "questions")
    /\ HasField(Unwrap(d_value), "plan")
    /\ HasField(Unwrap(d_value).v["plan"], "config_patch")
    /\ HasField(Unwrap(d_value).v["plan"], "secrets_patch")
    /\ Unwrap(Unwrap(d_output).val.plan_patch).config_patch = None
    /\ Unwrap(Unwrap(d_output).val.plan_patch).notes = Some(<<"n1", "n2">>)

\* The flow the spec's lookup gives entry name E in a list of records: the
\* first record whose entry (or, with no entry, name) is E and that has one
\* of the given fields, and of that record the first of these fields present.
Lookup(list, E, fields) ==
    LET Matches(j) ==
            /\ \/ list[j].entry = Some(E)
               \/ list[j].entry = None /\ list[j].name = Some(E)
            /\ \E h \in DOMAIN fields : list[j][fields[h]] # None
    IN  IF \E j \in DOMAIN list : Matches(j)
        THEN LET j == CHOOSE j \in DOMAIN list :
                          Matches(j) /\ \A h \in DOMAIN list : Matches(h) => j <= h
                 f == CHOOSE f \in DOMAIN fields :
                          /\ list[j][fields[f]] # None
                          /\ \A h \in DOMAIN fields :
                                list[j][fields[h]] # None => f <= h
             IN  list[j][fields[f]]
        ELSE None

\* The flow entry name E resolves to: meta.entry_flows first, then flows.
Resolved(mf, E) ==
    LET ef == mf.meta.entry_flows
        fromMeta ==
            CASE ef.kind = "Map" /\ E \in DOMAIN ef.map -> Some(ef.map[E])
              [] ef.kind = "List" -> Lookup(ef.list, E, <<"id", "flow_id", "name">>)
              [] OTHER -> None
    IN  IF fromMeta # None THEN fromMeta
        ELSE Lookup(mf.flows, E, <<"id", "name">>)

\* C21: discover returns a descriptor exactly when the setup entry resolves;
\* the descriptor carries the manifest's id and version, the setup flow, the
\* requirements and subscriptions flows exactly when they resolve, and
\* meta.requires_public_base_url and meta.capabilities.
C21_DiscoverDescriptor ==
    p_descriptor # None =>
        LET mf == Unwrap(p_manifest)
            d  == Unwrap(p_descriptor)
        IN  /\ d # None <=> Resolved(mf, "setup") # None
            /\ d # None =>
                  /\ Unwrap(d).pack_id = mf.id
                  /\ Unwrap(d).pack_version = mf.version
                  /\ Some(Unwrap(d).setup_entry_flow) = Resolved(mf, "setup")
                  /\ Unwrap(d).requirements_flow = Resolved(mf, "requirements")
                  /\ Unwrap(d).subscriptions_flow = Resolved(mf, "subscriptions")
                  /\ Unwrap(d).requires_public_base_url
                        = mf.meta.requires_public_base_url
                  /\ Unwrap(d).outputs = mf.meta.capabilities

\* A descriptor for a manifest whose setup entry resolves through the name
\* of a flow, with no requirements flow, a subscriptions flow and outputs.
C21_Witness ==
    /\ p_descriptor # None
    /\ Unwrap(p_descriptor) # None
    /\ Unwrap(p_manifest).meta.entry_flows.kind = "List"
    /\ Unwrap(Unwrap(p_descriptor)).setup_entry_flow = "setup"
    /\ Unwrap(Unwrap(p_descriptor)).requirements_flow = None
    /\ Unwrap(Unwrap(p_descriptor)).subscriptions_flow = Some("n")
    /\ Unwrap(Unwrap(p_descriptor)).outputs = <<"webhooks", "oauth">>

\* The JSON string under key a of map or, failing that, under key b.
StringUnder(map, a, b) ==
    IF a \in DOMAIN map /\ map[a].t = "str" THEN Some(map[a].v)
    ELSE IF b \in DOMAIN map /\ map[b].t = "str" THEN Some(map[b].v)
    ELSE None

\* map holds the JSON string text under key.
HoldsString(map, key, text) ==
    key \in DOMAIN map /\ map[key].t = "str" /\ map[key].v = text

\* The string symbols.pack_ids[n] of map, if there is one.
Symbol(map, index) ==
    IF /\ "symbols" \in DOMAIN map /\ map["symbols"].t = "obj"
       /\ "pack_ids" \in DOMAIN map["symbols"].v
       /\ map["symbols"].v["pack_ids"].t = "arr"
       /\ index + 1 \in DOMAIN map["symbols"].v["pack_ids"].v
       /\ map["symbols"].v["pack_ids"].v[index + 1].t = "str"
    THEN Some(map["symbols"].v["pack_ids"].v[index + 1].v)
    ELSE None

Aliases == {"pack_id", "packId", "pack_version", "packVersion"}

\* C22: normalizing a manifest object keeps a present id; otherwise a string
\* pack_id or packId becomes id; otherwise a numeric pack_id n becomes
\* symbols.pack_ids[n], and with no such symbol no id is set and loading
\* fails; version is kept or taken from a string pack_version or packVersion;
\* none of the four aliases remains.
C22_AliasCollapse ==
    (/\ l_normalized # None
     /\ Unwrap(l_normalized) # None
     /\ DOMAIN Unwrap(l_value).v \cap {"pack", "manifest", "pack_manifest"} = {}) =>
        LET o  == Unwrap(l_value).v
            nz == Unwrap(Unwrap(l_normalized)).v
        IN  /\ DOMAIN nz \cap Aliases = {}
            /\ IF "id" \in DOMAIN o
               THEN HoldsString(nz, "id", o["id"].v)
               ELSE IF StringUnder(o, "pack_id", "packId") # None
               THEN HoldsString(nz, "id", Unwrap(StringUnder(o, "pack_id", "packId")))
               ELSE IF "pack_id" \in DOMAIN o /\ o["pack_id"].t = "num"
               THEN IF Symbol(o, o["pack_id"].v) # None
                    THEN HoldsString(nz, "id", Unwrap(Symbol(o, o["pack_id"].v)))
                    ELSE /\ "id" \notin DOMAIN nz
                         /\ ~Unwrap(l_manifest["cbor"]).ok
               ELSE TRUE
            /\ IF "version" \in DOMAIN o
               THEN HoldsString(nz, "version", o["version"].v)
               ELSE IF StringUnder(o, "pack_version", "packVersion") # None
               THEN HoldsString(nz, "version",
                                Unwrap(StringUnder(o, "pack_version", "packVersion")))
               ELSE TRUE

\* The manifest {pack_id: 0, version: "0.4.18", symbols: {pack_ids:
\* ["messaging-telegram"]}, flows: [{id: "setup_default", entrypoints:
\* ["setup"]}]}.
IsIndexedSymbolsManifest(value) ==
    /\ value.t = "obj"
    /\ DOMAIN value.v = {"pack_id", "version", "symbols", "flows"}
    /\ value.v["pack_id"].t = "num" /\ value.v["pack_id"].v = 0
    /\ HoldsString(value.v, "version", "0.4.18")
    /\ Symbol(value.v, 0) = Some("messaging-telegram")
    /\ Len(value.v["flows"].v) = 1
    /\ HoldsString(value.v["flows"].v[1].v, "id", "setup_default")
    /\ "entrypoints" \in DOMAIN value.v["flows"].v[1].v

\* C23: the CBOR manifest with the indexed pack_id and a flow that lists
\* setup among its entrypoints loads, and discovery on it gives the
\* descriptor of messaging-telegram 0.4.18 with setup_entry_flow
\* setup_default.
C23_IndexedSymbolsDescriptor ==
    (l_value # None /\ IsIndexedSymbolsManifest(Unwrap(l_value))) =>
        /\ l_manifest["cbor"] # None => Unwrap(l_manifest["cbor"]).ok
        /\ p_descriptor # None =>
              /\ Unwrap(p_descriptor) # None
              /\ Unwrap(Unwrap(p_descriptor)).pack_id = "messaging-telegram"
              /\ Unwrap(Unwrap(p_descriptor)).pack_version = "0.4.18"
              /\ Unwrap(Unwrap(p_descriptor)).setup_entry_flow = "setup_default"

NestingKeys == <<"pack", "manifest", "pack_manifest">>

\* The keys of map, among the nesting keys, that hold an object.
NestedUnder(map) ==
    {j \in DOMAIN NestingKeys :
        NestingKeys[j] \in DOMAIN map /\ map[NestingKeys[j]].t = "obj"}

\* C24: a top-level value that is not an object is rejected as an unsupported
\* manifest shape; when the top-level object holds an object under pack,
\* manifest or pack_manifest, the normalized manifest is made of that nested
\* object's fields, with its aliases collapsed into id and version, whatever
\* else the top-level object holds.
C24_DescendsIntoNested ==
    l_normalized # None =>
        IF Unwrap(l_value).t # "obj"
        THEN /\ Unwrap(l_normalized) = None
             /\ ~Unwrap(l_manifest["cbor"]).ok
             /\ Unwrap(l_manifest["cbor"]).err.kind = "ManifestDecode"
        ELSE /\ Unwrap(l_normalized) # None
             /\ NestedUnder(Unwrap(l_value).v) # {} =>
                   LET top    == Unwrap(l_value).v
                       first  == CHOOSE j \in NestedUnder(top) :
                                     \A h \in NestedUnder(top) : j <= h
                       nested == top[NestingKeys[first]].v
                       nz     == Unwrap(Unwrap(l_normalized)).v
                   IN  /\ (DOMAIN nested) \ Aliases \subseteq DOMAIN nz
                       /\ DOMAIN nz \subseteq
                             ((DOMAIN nested) \ Aliases) \cup {"id", "version"}

\* C25: a manifest file loads to the same result whether it is JSON or CBOR:
\* both encodings of a value fail, or both give the same PackManifest.
C25_EncodingIndependent ==
    (l_manifest["json"] # None /\ l_manifest["cbor"] # None) =>
        /\ Unwrap(l_manifest["json"]).ok = Unwrap(l_manifest["cbor"]).ok
        /\ Unwrap(l_manifest["json"]).ok =>
              Unwrap(l_manifest["json"]).val = Unwrap(l_manifest["cbor"]).val

RedactionError == "secrets_patch contains non-redacted values"

\* C26: the report of a pack whose dry run was checked carries the redaction
\* error exactly when some entry of the plan's secrets_patch.set has
\* redacted = false or a value; with every entry redacted and without a
\* value, or with no entry, the pack passes.
C26_RedactionCheck ==
    \A j \in DOMAIN c_reports :
        c_entries[j].fault = "none" =>
            LET set == c_entries[j].set
                exposed == \E k \in DOMAIN set :
                              set[k].redacted = FALSE \/ set[k].value # None
            IN  /\ RedactionError \in Range(c_reports[j].errors) <=> exposed
                /\ c_reports[j].ok <=> ~exposed

\* Two packs were checked: one whose plan sets a redacted entry that carries
\* a value, reported with the redaction error, and one whose plan sets only
\* redacted entries, reported as passed.
C26_Witness ==
    /\ Len(c_reports) = 2
    /\ c_entries[1].fault = "none"
    /\ c_entries[1].set = [token |-> [redacted |-> TRUE, value |-> Some("t")]]
    /\ c_reports[1].errors = <<RedactionError>>
    /\ c_entries[2].fault = "none"
    /\ c_entries[2].set = [token |-> Redacted, secret |-> Redacted]
    /\ c_reports[2].ok

\* The packs of the directory the provider filter lets through, in order.
Filtered ==
    SelectSeq(c_dir, LAMBDA pk : c_provider = None \/ c_provider = Some(pk.stem))

\* C27: when the conformance command has returned, every pack of the
\* provider-filtered set has been processed and reported, in order, and the
\* exit is non-zero exactly when some pack is reported with ok = false; a pack
\* is reported with ok = false exactly when something stopped it before its
\* dry run or its plan failed a check.
C27_ExitFollowsReports ==
    c_exit # None =>
        /\ Len(c_reports) = Len(Filtered)
        /\ \A j \in DOMAIN c_reports :
              /\ c_reports[j].pack = Filtered[j].stem
              /\ ~c_reports[j].ok <=>
                    \/ Filtered[j].fault # "none"
                    \/ check_conformance(PackResult(Filtered[j])) # <<>>
        /\ c_exit # Some("Ok") <=> \E j \in DOMAIN c_reports : ~c_reports[j].ok

\* C29: on the file-backed store, a put whose persist failed leaves the
\* record in memory, where get returns it and list includes it; a delete of
\* a stored install whose persist failed has removed the record from memory
\* and returned true; neither returns an error.
C29_PersistBestEffort ==
    (i_last # None /\ i_kind = "file" /\ ~i_last.persisted) =>
        LET key == i_last.key
        IN  /\ i_last.op = "put" =>
                  /\ i_latest[key] # None
                  /\ InstallGet(i_records, key.tenant, key.provider_id,
                                key.install_id) = i_latest[key]
                  /\ Unwrap(i_latest[key]) \in Range(InstallList(i_records, key.tenant))
                  /\ i_last.ret = None
            /\ (i_last.op = "delete" /\ Installed(i_last.before, key) # {}) =>
                  /\ Installed(i_records, key) = {}
                  /\ InstallGet(i_records, key.tenant, key.provider_id,
                                key.install_id) = None
                  /\ i_last.ret = TRUE

\* On a file-backed store whose file holds one record, a second install was
\* put and the write failed: memory holds two records, the file one.
C29_Witness ==
    /\ i_kind = "file"
    /\ i_last # None
    /\ i_last.op = "put"
    /\ ~i_last.persisted
    /\ Len(i_records) = 2
    /\ i_file # None
    /\ Len(Unwrap(i_file)) = 1

\* The keys of the entries of a serialized map, in the order written.
EntryKeys(entries) == [j \in DOMAIN entries |-> entries[j][1]]

\* The notes that the insertions ops push, in the order they are made.
NotesPushed(ops) ==
    LET notes == SelectSeq(ops, LAMBDA i : PlanInserts[i].op = "note")
    IN  [j \in DOMAIN notes |-> PlanInserts[notes[j]].value]

\* C28: the string a ProvisionPlan serializes to lists the entries of
\* config_patch and of secrets_patch.set in ascending key order, each key of
\* the map once with its value, whatever the order the entries were inserted
\* or merged in, and the notes in the order they were pushed; two plans of
\* equal contents built in different orders serialize to the same string,
\* and so do two serializations of one plan.
C28_SerializationDeterministic ==
    /\ \A side \in 1..2 : \A nth \in DOMAIN s_texts[side] :
          LET text   == s_texts[side][nth]
              config == text[1][2]
              set    == text[2][2][1][2]
          IN  /\ ListsKeysOf(EntryKeys(config), s_plans[side].config_patch)
              /\ \A j \in DOMAIN config :
                    /\ config[j][2].t = s_plans[side].config_patch[config[j][1]].t
                    /\ config[j][2] = s_plans[side].config_patch[config[j][1]]
              /\ ListsKeysOf(EntryKeys(set), s_plans[side].secrets_patch.set)
              /\ \A j \in DOMAIN set :
                    set[j][2] = s_plans[side].secrets_patch.set[set[j][1]]
              /\ text[6] = <<"notes", NotesPushed(s_ops[side])>>
              /\ text = s_texts[side][1]
    /\ (s_texts[1] # <<>> /\ s_texts[2] # <<>> /\ s_plans[1] = s_plans[2])
          => s_texts[1][1] = s_texts[2][1]

\* Two plans of equal contents were built by inserting "zeta" before "alpha"
\* in one and after it in the other, the first was serialized twice and the
\* second once.
C28_Witness ==
    /\ Len(s_texts[1]) = 2
    /\ Len(s_texts[2]) = 1
    /\ s_ops[1] # s_ops[2]
    /\ s_plans[1] = s_plans[2]
    /\ \E i, j \in DOMAIN s_ops[1] :
          /\ i < j
          /\ PlanInserts[s_ops[1][i]].op = "config"
          /\ PlanInserts[s_ops[1][j]].op = "config"
          /\ KeyRank(PlanInserts[s_ops[1][i]].key) > KeyRank(PlanInserts[s_ops[1][j]].key)
    /\ DOMAIN s_plans[1].secrets_patch.set # {}

\* The fixture paths of plan_from_fixtures, in step order.
FixtureFiles ==
    <<f_fixtures.collect, f_fixtures.validate, f_fixtures.apply, f_fixtures.summary>>

\* The steps, as indices of StepOrder, whose fixture path is present.
PresentFixtures == SelectSeq(<<1, 2, 3, 4>>, LAMBDA j : IsSome(FixtureFiles[j]))

\* The outputs the run returned for the steps whose fixture is present.
RecordedOutputs == [j \in DOMAIN PresentFixtures |-> returned[PresentFixtures[j]]]

\* Some present fixture cannot be read or parsed.
SomeFixtureFails ==
    \E j \in DOMAIN FixtureFiles :
        IsSome(FixtureFiles[j]) /\ Unwrap(FixtureFiles[j]).kind # "json"

\* C30: plan_from_fixtures on fixtures recorded from a run returns, when
\* every present fixture loads, the StepResults of the present fixtures in
\* the order Collect, Validate, Apply, Summary, the plan that is the merge
\* of their patches in that order and their diagnostics concatenated, an
\* absent fixture contributing nothing; with all four fixtures present that
\* is the plan and the diagnostics of the run; and when a present fixture
\* cannot be read or parsed it returns an error and nothing else.
C30_FixturesReplayRun ==
    IsSome(f_result) =>
        LET res == Unwrap(f_result)
        IN  IF SomeFixtureFails
            THEN /\ ~res.ok
                 /\ DOMAIN res = {"ok", "err"}
                 /\ res.err.kind \in {"Io", "Json"}
            ELSE /\ res.ok
                 /\ Len(Unwrap(res.val.step_results)) = Len(PresentFixtures)
                 /\ \A j \in DOMAIN PresentFixtures :
                       Unwrap(res.val.step_results)[j].step
                          = StepOrder[PresentFixtures[j]]
                 /\ res.val.plan = MergedPlan(RecordedOutputs)
                 /\ res.val.diagnostics = AllDiagnostics(RecordedOutputs)
                 /\ Len(PresentFixtures) = 4 =>
                       /\ res.val.plan = Unwrap(result).plan
                       /\ res.val.diagnostics = Unwrap(result).diagnostics

\* The four outputs of a run that returned a plan with entries and some
\* diagnostics were replayed.
C30_Witness ==
    /\ IsSome(f_result)
    /\ Len(PresentFixtures) = 4
    /\ ~SomeFixtureFails
    /\ Unwrap(f_result).ok
    /\ Unwrap(result).plan.config_patch # EmptyMap
    /\ Unwrap(result).diagnostics # <<>>
    /\ \E j \in 1..4 : ~IsSome(returned[j].plan_patch)

\* The subscription ops of the applied plan that register or update.
KeptSubscriptionOps ==
    SelectSeq(a_result.plan.subscription_ops,
              LAMBDA op : op.op \in {"register", "update"})

\* C31: the subscription state of an apply, in either mode, holds one record
\* for each op of the plan's subscription_ops that is register or update, in
\* plan order, and none for another op; the record has the op's id (unknown
\* when absent), the string under resource of the metadata (unknown when
\* there is none), the string under expiry (absent when there is none) and
\* no last_sync.
C31_SubscriptionState ==
    a_result # None =>
        /\ Len(report.subscription_state) = Len(KeptSubscriptionOps)
        /\ \A j \in DOMAIN KeptSubscriptionOps :
              LET op    == KeptSubscriptionOps[j]
                  state == report.subscription_state[j]
                  Str(key) == key \in DOMAIN op.metadata /\ op.metadata[key].t = "str"
              IN  /\ state.id = (IF op.id = None THEN "unknown" ELSE op.id[1])
                  /\ state.resource = (IF Str("resource")
                                       THEN op.metadata["resource"].v ELSE "unknown")
                  /\ state.expiry = (IF Str("expiry")
                                     THEN <<op.metadata["expiry"].v>> ELSE <<>>)
                  /\ state.last_sync = None

\* A plan with an update without id or metadata, a remove, a register whose
\* resource is no string and an update whose expiry is no string was
\* applied.
C31_Witness ==
    /\ a_result # None
    /\ Len(a_result.plan.subscription_ops) = 5
    /\ Len(report.subscription_state) = 4
    /\ report.subscription_state[1].id = "unknown"
    /\ report.subscription_state[2].resource = "unknown"
    /\ report.subscription_state[2].expiry = Some("2031")
    /\ report.subscription_state[4].expiry = None

\* C32: the report of a dry run has the config_changes, secret_set_keys and
\* secret_deleted_keys of the report of the Apply of the same plan with the
\* same inputs on the in-memory stores: here the Apply that follows the dry
\* run on one applier.
C32_DryRunReportsWhatApplyChanges ==
    [][(/\ applies >= 1
        /\ applies' = applies + 1
        /\ a_mode = "DryRun"
        /\ a_mode' = "Apply"
        /\ a_result'.plan = a_result.plan)
          => /\ report'.config_changes = report.config_changes
             /\ report'.secret_set_keys = report.secret_set_keys
             /\ report'.secret_deleted_keys = report.secret_deleted_keys]_vars

\* C33: after an apply in Apply mode no key of the plan's
\* secrets_patch.delete is in the secrets namespace, whatever the plan and
\* whatever the OAuth handler answers.
C33_DeletedSecretsAbsent ==
    (a_result # None /\ a_mode = "Apply") =>
        \A j \in DOMAIN a_result.plan.secrets_patch.delete :
            a_result.plan.secrets_patch.delete[j]
                \notin DOMAIN NamespaceOf(secrets_store, SecretsNs)

\* The places in effects of the token writes of the OAuth loop under key.
OAuthWrites(key) ==
    {c \in DOMAIN effects :
        /\ effects[c].call = "set_secret"
        /\ effects[c].site = "oauth"
        /\ effects[c].key = key}

\* C33 as the code has it: after an apply in Apply mode a key of the plan's
\* secrets_patch.delete is in the secrets namespace only if the OAuth loop
\* of this apply wrote a token under it, and then it holds the last token
\* written; a key the plan both sets and deletes is otherwise absent.
C33_DeletedSecretsAbsentUnlessToken ==
    (a_result # None /\ a_mode = "Apply") =>
        \A j \in DOMAIN a_result.plan.secrets_patch.delete :
            LET key    == a_result.plan.secrets_patch.delete[j]
                stored == NamespaceOf(secrets_store, SecretsNs)
            IN  key \in DOMAIN stored =>
                    /\ OAuthWrites(key) # {}
                    /\ \E c \in OAuthWrites(key) :
                          /\ \A o \in OAuthWrites(key) : o <= c
                          /\ stored[key] = effects[c].value

\* A plan that sets b in plaintext and deletes it was applied with an OAuth
\* handler that answered a token: b is absent and the token is stored.
C33_Witness ==
    /\ a_result # None
    /\ a_mode = "Apply"
    /\ a_result.plan.secrets_patch.delete = <<"b">>
    /\ "b" \in DOMAIN a_result.plan.secrets_patch.set
    /\ "b" \notin DOMAIN NamespaceOf(secrets_store, SecretsNs)
    /\ "oauth_access_token" \in DOMAIN NamespaceOf(secrets_store, SecretsNs)

\* Sequence p is a prefix of sequence q.
IsPrefix(p, q) == Len(p) <= Len(q) /\ SubSeq(q, 1, Len(p)) = p

\* Plan q keeps every key and every list entry of plan p, the list entries
\* at their places.
Keeps(p, q) ==
    /\ DOMAIN p.config_patch \subseteq DOMAIN q.config_patch
    /\ DOMAIN p.secrets_patch.set \subseteq DOMAIN q.secrets_patch.set
    /\ IsPrefix(p.secrets_patch.delete, q.secrets_patch.delete)
    /\ IsPrefix(p.webhook_ops, q.webhook_ops)
    /\ IsPrefix(p.subscription_ops, q.subscription_ops)
    /\ IsPrefix(p.oauth_ops, q.oauth_ops)
    /\ IsPrefix(p.notes, q.notes)

\* C34: the plan of a run after each step keeps the keys of config_patch and
\* of secrets_patch.set it had before the step and has each list field it
\* had before the step as a prefix, and so does the plan of
\* plan_from_fixtures across the fixtures it loads: no step removes a key or
\* a list entry of an earlier step.
C34_PlanMonotone ==
    /\ \A j \in DOMAIN plans :
          Keeps(IF j = 1 THEN DefaultPlan ELSE plans[j - 1], plans[j])
    /\ plans # <<>> => plan = plans[Len(plans)]
    /\ (IsSome(f_result) /\ Unwrap(f_result).ok) =>
          LET loaded == Unwrap(Unwrap(f_result).val.step_results)
              outs   == [j \in DOMAIN loaded |-> loaded[j].output]
          IN  /\ \A k \in DOMAIN outs :
                    Keeps(MergedPlan(SubSeq(outs, 1, k - 1)),
                          MergedPlan(SubSeq(outs, 1, k)))
              /\ Unwrap(f_result).val.plan = MergedPlan(outs)

\* A run whose second step overwrote a config key of the first and whose
\* later steps added list entries has returned and its fixtures were
\* replayed.
C34_Witness ==
    /\ e_pc = "done"
    /\ IsSome(f_result)
    /\ Unwrap(f_result).ok
    /\ Len(plans) = 4
    /\ plans[1].config_patch = [foo |-> JStr("bar")]
    /\ plans[2].config_patch = [foo |-> JStr("baz"), zeta |-> JNull]
    /\ plans[1].notes = <<"n1">>
    /\ plans[4].notes = <<"n1", "n2">>
    /\ Unwrap(f_result).val.plan = plans[4]

\* The install key of a record, as the install store compares it.
InstallKeyOf(r) == <<r.tenant, r.provider_id, r.install_id>>

\* C35: two installs whose keys (tenant, provider_id, install_id) differ as
\* the install store compares them, the tenant's user included, have
\* different config namespaces and different secrets namespaces: no two
\* records of the install store share a namespace.
C35_NamespacesPartition ==
    \A j, k \in DOMAIN install_store :
        InstallKeyOf(install_store[j]) # InstallKeyOf(install_store[k]) =>
            /\ install_store[j].config_namespace # install_store[k].config_namespace
            /\ install_store[j].secrets_namespace # install_store[k].secrets_namespace

\* FileInstallStore::new on the path of the driven store, then get and list
\* on it: the reopened store answers as the driven store does.
ReopenedSame ==
    /\ load_records(i_file).ok
    /\ \A reopened \in {load_records(i_file).val} :
          /\ reopened = i_records
          /\ \A k \in InstallKeys :
                /\ InstallGet(reopened, k.tenant, k.provider_id, k.install_id)
                      = InstallGet(i_records, k.tenant, k.provider_id, k.install_id)
                /\ InstallList(reopened, k.tenant) = InstallList(i_records, k.tenant)

\* The operation just made wrote the file and the write failed: a put
\* always writes, a delete writes when it removed a record.
WriteFailed ==
    /\ i_last # None
    /\ ~i_last.persisted
    /\ \/ i_last.op = "put"
       \/ i_last.op = "delete" /\ i_last.ret

\* C36: for the file-backed install store, a store constructed on a path
\* that holds nothing is empty, and as long as no write of a put or delete
\* fails the file holds the records of the store, so that a store
\* constructed on the same path answers get and list as the store does.
C36_FileHoldsRecords ==
    /\ (i_kind = "file" => (i_records = <<>> /\ ReopenedSame))
    /\ [][(i_kind = "file" /\ ReopenedSame /\ ~WriteFailed') => ReopenedSame']_vars

C36_Witness ==
    /\ i_kind = "file"
    /\ i_ops = MaxStoreOps
    /\ i_last.op = "delete" /\ i_last.ret /\ i_last.persisted
    /\ Len(i_records) = 2
    /\ \E j \in 1..2 : i_records[j].subscriptions # <<>>
    /\ i_file = Some(i_records)
    /\ ReopenedSame

\* A record of meta.entry_flows or of flows is for entry name E: its entry
\* is E or, when it has no entry, its name is E.
IsFor(rec, E) ==
    \/ rec.entry = Some(E)
    \/ rec.entry = None /\ rec.name = Some(E)

\* Record j of meta.entry_flows is the first one for E that names a flow.
MetaHit(mf, E, j) ==
    LET list == mf.meta.entry_flows.list
        Names(h) == list[h].id # None \/ list[h].flow_id # None \/ list[h].name # None
    IN  /\ mf.meta.entry_flows.kind = "List"
        /\ IsFor(list[j], E) /\ Names(j)
        /\ \A h \in 1..(j - 1) : ~(IsFor(list[h], E) /\ Names(h))

\* Flow j of flows is the first one for E that has an id or a name.
FlowHit(mf, E, j) ==
    LET Names(h) == mf.flows[h].id # None \/ mf.flows[h].name # None
    IN  /\ IsFor(mf.flows[j], E) /\ Names(j)
        /\ \A h \in 1..(j - 1) : ~(IsFor(mf.flows[h], E) /\ Names(h))

\* meta.entry_flows has a map entry for E.
MapHit(mf, E) ==
    /\ mf.meta.entry_flows.kind = "Map"
    /\ E \in DOMAIN mf.meta.entry_flows.map

\* What discover found for entry name E.
Discovered(E) ==
    LET d == Unwrap(p_descriptor)
    IN  CASE d = None -> None
          [] E = "setup" -> Some(Unwrap(d).setup_entry_flow)
          [] E = "requirements" -> Unwrap(d).requirements_flow
          [] OTHER -> Unwrap(d).subscriptions_flow

====
